---- MODULE Spec2Model ----
(***************************************************************************)
(* A model of the chinese_prompt_optimizer package: the glossary-protected *)
(* Translator, the HallucinationGuard helpers, the Skeleton-of-Thought     *)
(* pipeline and the ChinesePromptOptimizer orchestrator.                   *)
(*                                                                         *)
(* Text is a sequence of one-character strings.  A Python dict is a        *)
(* sequence of <<key, value>> pairs with distinct keys, in insertion       *)
(* order.  The external translation service and the completion gateway are *)
(* nondeterministic choices over their possible outcomes.                  *)
(***************************************************************************)
EXTENDS Integers, Sequences, FiniteSets, TLC

VARIABLES
    t_glossary,       \* Translator.glossary (instance glossary)
    t_op,             \* operation of the current invocation
    t_text,           \* its text argument
    t_extra,          \* its extra_glossary argument (None or a dict)
    t_map,            \* the dict handed to _protect_terms / _restore_terms
    t_protected,      \* text returned by _protect_terms
    t_placeholders,   \* placeholder map returned by _protect_terms
    t_chunks,         \* texts still to be handed to engine.translate
    t_sent,           \* texts handed to engine.translate so far, in order
    t_parts,          \* what engine.translate returned so far, in order
    t_pc,             \* "idle", "translating", "done", "raised"
    t_out,            \* the returned string
    t_err,            \* the exception raised
    o_ctor,           \* the arguments ChinesePromptOptimizer was built with
    o_self,           \* the optimizer's attributes
    o_args,           \* the arguments of the current complete() call
    o_pc,             \* "absent" (no optimizer was built), "idle",
                      \* "sys_translate", "completion", "resp_translate",
                      \* "returned", "raised"
    o_chinese,        \* chinese_system_prompt
    o_calls,          \* the litellm.completion calls of this invocation
    o_raw,            \* the raw response of the completion call
    o_result,         \* the dict complete() returned
    o_err,            \* the exception that left complete()
    s_self,           \* the attributes of the SkeletonOfThought object
    s_args,           \* the arguments of the current SoT complete() call
    s_pc,             \* "absent", "idle", "skeleton", "expanding",
                      \* "expanding_parallel", "returned", "raised"
    s_calls,          \* the litellm.completion calls of this invocation,
                      \* each with its outcome
    s_raw_skeleton,   \* the raw response of the Stage-1 call
    s_points,         \* points
    s_tasks,          \* per point: the state of its expansion and the
                      \* number of its call
    s_done,           \* the points in the order their calls ended
    s_result,         \* the dict complete() returned
    s_err,            \* the exception that left complete()
    f_name,           \* the function applied on its own, "none" when none is
    f_args,           \* its arguments
    f_result          \* what it returned

tvars == <<t_glossary, t_op, t_text, t_extra, t_map, t_protected,
           t_placeholders, t_chunks, t_sent, t_parts, t_pc, t_out, t_err>>

ovars == <<o_ctor, o_self, o_args, o_pc, o_chinese, o_calls, o_raw, o_result, o_err>>

svars == <<s_self, s_args, s_pc, s_calls, s_raw_skeleton, s_points, s_tasks, s_done,
          s_result, s_err>>

fvars == <<f_name, f_args, f_result>>

vars == <<tvars, ovars, svars, fvars>>

None == "None"

-----------------------------------------------------------------------------
(* Bounds of the model.                                                    *)

\* longest generated input text of the protect/restore study
MaxTextLen == 3
\* most entries of a generated glossary
MaxGlossary == 2
\* most constructor arguments of the optimizer set to another value than
\* their default
MaxNonDefault == 2
\* fewest worker threads of a ThreadPoolExecutor built with max_workers=None
DefaultWorkers == 5
\* largest size of a temperature tried, in hundredths
MaxTemperature == 100

-----------------------------------------------------------------------------
(* Text primitives (Python str and re semantics).                          *)

\* whitespace as str.strip, str.isspace and \s see it; "(nbsp)" stands for the
\* no-break space U+00A0, which is whitespace and not a line break
WsChars == {" ", "\n", "\t", "(nbsp)"}

DigitSeq == <<"0", "1", "2", "3", "4", "5", "6", "7", "8", "9">>

DigitChars == {DigitSeq[i] : i \in 1..10}

IsWs(c) == c \in WsChars

\* s[i..] starts with pat
StartsAt(s, pat, i) ==
    /\ i >= 1
    /\ i + Len(pat) - 1 <= Len(s)
    /\ SubSeq(s, i, i + Len(pat) - 1) = pat

\* pat in s, for a non-empty pat
Contains(s, pat) == \E i \in 1..Len(s) : StartsAt(s, pat, i)

\* the least position >= i where pat occurs in s, 0 for none
FindFrom(s, pat, i) ==
    LET hits == {j \in i..Len(s) : StartsAt(s, pat, j)}
    IN  IF hits = {} THEN 0 ELSE CHOOSE j \in hits : \A k \in hits : j <= k

RECURSIVE ReplaceFrom(_, _, _, _)
ReplaceFrom(s, pat, rep, i) ==
    LET j == FindFrom(s, pat, i)
    IN  IF j = 0 THEN SubSeq(s, i, Len(s))
        ELSE SubSeq(s, i, j - 1) \o rep \o ReplaceFrom(s, pat, rep, j + Len(pat))

\* s.replace(pat, rep), and re.sub of an escaped literal: leftmost,
\* non-overlapping occurrences of a non-empty pat
ReplaceAll(s, pat, rep) == ReplaceFrom(s, pat, rep, 1)

RECURSIVE LStrip(_)
LStrip(s) ==
    IF s # <<>> /\ IsWs(Head(s)) THEN LStrip(Tail(s)) ELSE s

RECURSIVE RStrip(_)
RStrip(s) ==
    IF s # <<>> /\ IsWs(s[Len(s)]) THEN RStrip(SubSeq(s, 1, Len(s) - 1)) ELSE s

\* s.strip()
Strip(s) == RStrip(LStrip(s))

\* the text has no character at all
IsEmpty(s) == s = <<>>

\* not text or not text.strip()
IsBlank(s) == Strip(s) = <<>>

RECURSIVE Decimal(_)
Decimal(n) ==
    IF n < 10 THEN <<DigitSeq[n + 1]>>
    ELSE Decimal(n \div 10) \o <<DigitSeq[(n % 10) + 1]>>

RECURSIVE JoinWith(_, _)
\* sep.join(parts)
JoinWith(parts, sep) ==
    IF parts = <<>> THEN <<>>
    ELSE IF Len(parts) = 1 THEN parts[1]
    ELSE parts[1] \o sep \o JoinWith(Tail(parts), sep)

-----------------------------------------------------------------------------
(* Python dicts as sequences of <<key, value>> pairs.                      *)

DictKeys(d) == {d[i][1] : i \in 1..Len(d)}

DictHas(d, k) == \E i \in 1..Len(d) : d[i][1] = k

DictGet(d, k) == d[CHOOSE i \in 1..Len(d) : d[i][1] = k][2]

\* d[k] = v: a present key keeps its position
DictSet(d, k, v) ==
    IF DictHas(d, k)
    THEN [i \in 1..Len(d) |-> IF d[i][1] = k THEN <<k, v>> ELSE d[i]]
    ELSE Append(d, <<k, v>>)

RECURSIVE DictUpdate(_, _)
\* {**a, **b}
DictUpdate(a, b) ==
    IF b = <<>> THEN a
    ELSE DictUpdate(DictSet(a, b[1][1], b[1][2]), Tail(b))

-----------------------------------------------------------------------------
(* translator.py                                                           *)

PhPrefix == <<"_", "_", "P", "H", "_">>

PhSuffix == <<"_", "_">>

\* the marker built without its index
PlaceholderNoIndex(idx) == PhPrefix \o <<"0">> \o PhSuffix

\* _PLACEHOLDER.format(idx=idx)
Placeholder(idx) == PhPrefix \o Decimal(idx) \o PhSuffix

RECURSIVE DigitRun(_, _)
\* length of the maximal run of digits of s from position i
DigitRun(s, i) ==
    IF i <= Len(s) /\ s[i] \in DigitChars THEN 1 + DigitRun(s, i + 1) ELSE 0

\* length of the match of _PH_PATTERN (__PH_\d+__) at position i, 0 for none
PhMatchLen(s, i) ==
    IF ~StartsAt(s, PhPrefix, i) THEN 0
    ELSE LET d == DigitRun(s, i + 5)
         IN  IF d >= 1 /\ StartsAt(s, PhSuffix, i + 5 + d) THEN 7 + d ELSE 0

RECURSIVE PhSubFrom(_, _)
PhSubFrom(s, i) ==
    LET hits == {j \in i..Len(s) : PhMatchLen(s, j) > 0}
    IN  IF hits = {} THEN SubSeq(s, i, Len(s))
        ELSE LET j == CHOOSE x \in hits : \A k \in hits : x <= k
             IN  SubSeq(s, i, j - 1) \o PhSubFrom(s, j + PhMatchLen(s, j))

\* _PH_PATTERN.sub("", text)
PhSub(s) == PhSubFrom(s, 1)

\* _PH_PATTERN.search(text) is not None
HasMarker(s) == \E i \in 1..Len(s) : PhMatchLen(s, i) > 0

RECURSIVE ProtectFrom(_, _, _, _)
\* the loop of _protect_terms from entry idx + 1 on (idx counts from 0)
ProtectFrom(text, glossary, idx, phs) ==
    IF idx >= Len(glossary) THEN <<text, phs>>
    ELSE LET term        == glossary[idx + 1][1]
             replacement == glossary[idx + 1][2]
             ph          == Placeholder(idx)
         IN  IF term = <<>> THEN ProtectFrom(text, glossary, idx + 1, phs)
             ELSE IF Contains(text, term)
                  THEN ProtectFrom(ReplaceAll(text, term, ph), glossary,
                                   idx + 1, DictSet(phs, ph, replacement))
                  ELSE ProtectFrom(text, glossary, idx + 1, phs)

\* Translator._protect_terms: <<protected text, placeholder map>>
ProtectTerms(text, glossary) == ProtectFrom(text, glossary, 0, <<>>)

RECURSIVE RestoreLoop(_, _)
RestoreLoop(text, phs) ==
    IF phs = <<>> THEN text
    ELSE RestoreLoop(ReplaceAll(text, phs[1][1], phs[1][2]), Tail(phs))

\* Translator._restore_terms (its glossary argument is not read)
RestoreTerms(text, phs) == Strip(PhSub(RestoreLoop(text, phs)))

SentenceEnd == {".", "!", "?"}

RECURSIVE WsRun(_, _)
\* length of the maximal run of whitespace of s from position i
WsRun(s, i) ==
    IF i <= Len(s) /\ IsWs(s[i]) THEN 1 + WsRun(s, i + 1) ELSE 0

RECURSIVE SplitFrom(_, _)
\* _SENTENCE_SPLIT.split(s) from position i: the pieces between the matches
\* of (?<=[.!?])\s+
SplitFrom(s, i) ==
    LET hits == {j \in i..Len(s) : j > 1 /\ IsWs(s[j]) /\ s[j - 1] \in SentenceEnd}
    IN  IF hits = {} THEN <<SubSeq(s, i, Len(s))>>
        ELSE LET j == CHOOSE x \in hits : \A k \in hits : x <= k
             IN  <<SubSeq(s, i, j - 1)>> \o SplitFrom(s, j + WsRun(s, j))

\* the stripped text as one piece
WholeText(text) == <<Strip(text)>>

\* _split_sentences
SplitSentences(text) ==
    SelectSeq(SplitFrom(Strip(text), 1), LAMBDA piece : piece # <<>>)

RECURSIVE InvertFrom(_, _)
InvertFrom(merged, acc) ==
    IF merged = <<>> THEN acc
    ELSE LET k == merged[1][1]
             v == merged[1][2]
         IN  IF v # <<>> /\ v # k
             THEN InvertFrom(Tail(merged), DictSet(acc, v, k))
             ELSE InvertFrom(Tail(merged), acc)

\* {v: k for k, v in merged.items() if v and v != k}
InvertGlossary(merged) == InvertFrom(merged, <<>>)

\* the instance glossary laid over the per-call one
InstanceWins(glossary, extra) ==
    DictUpdate(IF extra = None THEN <<>> ELSE extra, glossary)

\* {**self.glossary, **(extra_glossary or {})}
MergeGlossary(glossary, extra) ==
    DictUpdate(glossary, IF extra = None THEN <<>> ELSE extra)

-----------------------------------------------------------------------------
(* The external translation primitive, engine.translate(chunk): a choice   *)
(* among the service's outcomes.  Words are carried over letter by letter  *)
(* (a <-> x, b <-> y stand for a term and a word and their translations);  *)
(* markers are kept, dropped, or mangled by whitespace set inside them.    *)

EnToZh(c) == CASE c = "a" -> "x" [] c = "b" -> "y" [] OTHER -> c

ZhToEn(c) == CASE c = "x" -> "a" [] c = "y" -> "b" [] OTHER -> c

\* the words outside markers in the target language
RECURSIVE CarryOver(_, _, _)
CarryOver(s, op, i) ==
    IF i > Len(s) THEN <<>>
    ELSE LET n == PhMatchLen(s, i)
         IN  IF n > 0 THEN SubSeq(s, i, i + n - 1) \o CarryOver(s, op, i + n)
             ELSE <<IF op = "e2c" THEN EnToZh(s[i]) ELSE ZhToEn(s[i])>>
                  \o CarryOver(s, op, i + 1)

MangledPrefix == <<"_", "_", " ", "P", "H", "_">>

EngineResults(chunk, op) ==
    LET kept == CarryOver(chunk, op, 1)
    IN  { kept, PhSub(kept), ReplaceAll(kept, PhPrefix, MangledPrefix) }

-----------------------------------------------------------------------------
(* anti_hallucination.py.  A temperature is a number of hundredths, or NaN. *)

\* the float NaN: an integer apart from every temperature in hundredths,
\* which no comparison looks into
NaN == -100000

\* 0.1, the lower end of the safe range
MIN_TEMPERATURE == 10

\* HallucinationGuard.MAX_TEMPERATURE (0.4)
MAX_TEMPERATURE == 40

\* HallucinationGuard.DEFAULT_TEMPERATURE (0.2)
DEFAULT_TEMPERATURE == 20

\* a < b on floats: false when either is NaN
FloatLess(a, b) == a # NaN /\ b # NaN /\ a < b

\* the first argument, whatever the second
FirstArgument(a, b) == a

\* min(a, b): the first argument unless the second is less
PyMin(a, b) == IF FloatLess(b, a) THEN b ELSE a

\* max(a, b): the first argument unless the second is greater
PyMax(a, b) == IF FloatLess(a, b) THEN b ELSE a

\* the temperature handed through as given
NoClamp(temperature) == temperature

\* HallucinationGuard.enforce_temperature
enforce_temperature(temperature) ==
    PyMax(MIN_TEMPERATURE, PyMin(temperature, MAX_TEMPERATURE))

\* the three instruction blocks; the last two hold line breaks
IDK_INSTRUCTION == <<"IDK">>

COT_INSTRUCTION == <<"COT", "\n", "COT1", "\n", "COT2", "\n", "COT3", "\n", "COT4">>

SELF_REFLECT_INSTRUCTION == <<"SR", "\n", "SR1", "\n", "SR2", "\n", "SR3">>

\* the chain-of-thought block put ahead of the IDK rule
guarded_prompt_cot_first(chinese_prompt, use_idk_rule, use_cot, use_self_reflect) ==
    JoinWith( <<Strip(chinese_prompt)>>
              \o (IF use_cot THEN <<COT_INSTRUCTION>> ELSE <<>>)
              \o (IF use_idk_rule THEN <<IDK_INSTRUCTION>> ELSE <<>>)
              \o (IF use_self_reflect THEN <<SELF_REFLECT_INSTRUCTION>> ELSE <<>>),
              <<"\n">> )

\* HallucinationGuard.build_guarded_prompt
build_guarded_prompt(chinese_prompt, use_idk_rule, use_cot, use_self_reflect) ==
    JoinWith( <<Strip(chinese_prompt)>>
              \o (IF use_idk_rule THEN <<IDK_INSTRUCTION>> ELSE <<>>)
              \o (IF use_cot THEN <<COT_INSTRUCTION>> ELSE <<>>)
              \o (IF use_self_reflect THEN <<SELF_REFLECT_INSTRUCTION>> ELSE <<>>),
              <<"\n">> )

CONTEXT_START == <<"[Verified Context]">>

CONTEXT_END == <<"[End Context]">>

\* the block with the snippets as they were given
context_block_unstripped(snippets) ==
    IF snippets = <<>> THEN <<>>
    ELSE JoinWith( <<CONTEXT_START>>
                   \o [i \in 1..Len(snippets) |->
                         Decimal(i) \o <<".", " ">> \o snippets[i]]
                   \o <<CONTEXT_END>>,
                   <<"\n">> )

\* HallucinationGuard.build_rag_context_block
build_rag_context_block(snippets) ==
    IF snippets = <<>> THEN <<>>
    ELSE JoinWith( <<CONTEXT_START>>
                   \o [i \in 1..Len(snippets) |->
                         Decimal(i) \o <<".", " ">> \o Strip(snippets[i])]
                   \o <<CONTEXT_END>>,
                   <<"\n">> )

RECURSIVE build_few_shot_messages(_)
\* HallucinationGuard.build_few_shot_messages; an example is a record that
\* has a user field, an assistant field, or both
build_few_shot_messages(examples) ==
    IF examples = <<>> THEN <<>>
    ELSE LET ex == examples[1]
         IN  (IF "user" \in DOMAIN ex
              THEN <<[role |-> "user", content |-> ex.user]>> ELSE <<>>)
             \o (IF "assistant" \in DOMAIN ex
                 THEN <<[role |-> "assistant", content |-> ex.assistant]>> ELSE <<>>)
             \o build_few_shot_messages(Tail(examples))

UpperCase == <<"A", "B", "W", "X", "Y">>

LowerCase == <<"a", "b", "w", "x", "y">>

\* str.lower() of one character
LowerChar(c) ==
    IF \E i \in 1..Len(UpperCase) : UpperCase[i] = c
    THEN LowerCase[CHOOSE i \in 1..Len(UpperCase) : UpperCase[i] = c]
    ELSE c

Lower(s) == [i \in 1..Len(s) |-> LowerChar(s[i])]

NonWordChars ==
    WsChars \cup {".", "!", "?", ",", ":", ";", "-", "*", "(", ")", "[", "]"}

\* \w
IsWordChar(c) == c \notin NonWordChars

RECURSIVE WordRun(_, _)
\* length of the maximal run of word characters of s from position i
WordRun(s, i) ==
    IF i <= Len(s) /\ IsWordChar(s[i]) THEN 1 + WordRun(s, i + 1) ELSE 0

\* shortest word that counts as a key term
MIN_KEY_TERM_LEN == 4

\* set(w.lower() for w in re.findall(r"\b\w{4,}\b", source_text))
KeyTerms(source) ==
    { Lower(SubSeq(source, i, i + WordRun(source, i) - 1)) :
        i \in { j \in 1..Len(source) :
                  /\ IsWordChar(source[j])
                  /\ (j = 1 \/ ~IsWordChar(source[j - 1]))
                  /\ WordRun(source, j) >= MIN_KEY_TERM_LEN } }

\* an empty input reported as a full overlap
FullOverlapResult == [grounded |-> TRUE, overlap_ratio |-> 1000, warning |-> <<>>]

\* the result for an empty source or an empty response
EmptyInputResult == [grounded |-> TRUE, overlap_ratio |-> 0, warning |-> <<>>]

\* the thousandths of found / total, cut off
Truncate3(found, total) == (found * 1000) \div total

\* round(found / total, 3), in thousandths; no fraction of the totals reached
\* here lies halfway between two thousandths
Round3(found, total) == (found * 2000 + total) \div (2 * total)

\* HallucinationGuard.check_source_grounding; ratios are in thousandths
check_source_grounding(source_text, response_text, min_overlap_ratio) ==
    IF source_text = <<>> \/ response_text = <<>>
    THEN EmptyInputResult
    ELSE LET source_words == KeyTerms(source_text)
         IN  IF source_words = {}
             THEN [grounded |-> TRUE, overlap_ratio |-> 1000, warning |-> <<>>]
             ELSE LET response_lower == Lower(response_text)
                      found == Cardinality({w \in source_words :
                                               Contains(response_lower, w)})
                      total == Cardinality(source_words)
                      \* overlap >= min_overlap_ratio, on exact fractions
                      grounded == found * 1000 >= min_overlap_ratio * total
                  IN  [ grounded |-> grounded,
                        overlap_ratio |-> Round3(found, total),
                        warning |-> IF grounded THEN <<>> ELSE <<"WARN">> ]

-----------------------------------------------------------------------------
(* utils.py                                                                *)

\* _approx_tokens: max(1, len(text) * 10 // 38)
approx_tokens(text) ==
    LET n == (Len(text) * 10) \div 38 IN IF n < 1 THEN 1 ELSE n

\* count_tokens, by the character heuristic it falls back to
count_tokens(text) == IF text = <<>> THEN 0 ELSE approx_tokens(text)

\* the hundredths of num / den * 100, cut off
Truncate2(num, den) == (num * 10000) \div den

\* round(num / den * 100, 2), in hundredths of a percent; no fraction of the
\* token counts reached here lies halfway between two hundredths
Round2(num, den) == (num * 20000 + den) \div (2 * den)

\* the report token_savings_report builds from the two token counts;
\* saving_pct is in hundredths of a percent
savings_report(en_tokens, zh_tokens) ==
    LET saved == en_tokens - zh_tokens
    IN  [ english_tokens |-> en_tokens,
          chinese_tokens |-> zh_tokens,
          tokens_saved   |-> saved,
          saving_pct     |-> IF en_tokens > 0 THEN Round2(saved, en_tokens) ELSE 0 ]

\* token_savings_report, with count_tokens by the character heuristic
token_savings_report(english_text, chinese_text) ==
    savings_report(count_tokens(english_text), count_tokens(chinese_text))

-----------------------------------------------------------------------------
(* Inputs of the protect/restore study.                                    *)

RtAlphabet == {"a", "b", "_"}

RECURSIVE SeqsUpTo(_, _)
\* every sequence over S of length at most n
SeqsUpTo(S, n) ==
    IF n = 0 THEN {<<>>}
    ELSE LET shorter == SeqsUpTo(S, n - 1)
         IN  shorter \cup {Append(s, c) : s \in shorter, c \in S}

\* texts with a marker or the letters of one, with digits, with whitespace
RtOtherTexts ==
    { <<"_", "_", "P", "H", "_", "0", "_", "_", " ", "a">>,
      <<"a", "_", "_", "P", "H", "_", "7", "_", "_">>,
      <<"_", "_", "P", "H", "_", "0", "a", "_", "_">>,
      <<"a", " ", "P">>,
      <<"a", "0">>,
      <<"b", " ", "a", "0", "1">>,
      <<" ", "a">>,
      <<"a", "\n">>,
      <<"a", " ", "b">> }

RtTexts == SeqsUpTo(RtAlphabet, MaxTextLen) \cup RtOtherTexts

\* glossary entries: terms kept as they are, terms given another value, terms
\* made of marker characters, the empty term
RtEntries ==
    { << <<"a">>, <<"a">> >>,
      << <<"a">>, <<"b">> >>,
      << <<"b">>, <<"b">> >>,
      << <<"a", "b">>, <<"a", "b">> >>,
      << <<"_">>, <<"_">> >>,
      << <<"0">>, <<"0">> >>,
      << <<"P">>, <<"P">> >>,
      << <<>>, <<"b">> >> }

RECURSIVE DictsUpTo(_, _)
\* every dict of at most n entries of E
DictsUpTo(E, n) ==
    IF n = 0 THEN {<<>>}
    ELSE LET smaller == DictsUpTo(E, n - 1)
         IN  smaller \cup
             { Append(g, e) : g \in {h \in smaller : Len(h) = n - 1}, e \in E }

UniqueKeys(d) == \A i, j \in 1..Len(d) : i # j => d[i][1] # d[j][1]

RtDicts == { g \in DictsUpTo(RtEntries, MaxGlossary) : UniqueKeys(g) }

-----------------------------------------------------------------------------
(* Translator.english_to_chinese ("e2c") and chinese_to_english ("c2e"),   *)
(* cut at the calls of engine.translate.                                   *)

TrOps == {"e2c", "c2e"}

TranslatorValueError == "ValueError: Input text must not be empty."

TranslationError == "TranslationError"

\* the start of a public method that writes the merged glossary back to the
\* instance
TrStartUpdatingInstance(op, text, extra) ==
    /\ t_op' = op
    /\ t_text' = text
    /\ t_extra' = extra
    /\ t_sent' = <<>>
    /\ t_parts' = <<>>
    /\ t_out' = <<>>
    /\ IF IsBlank(text)
       THEN /\ t_pc' = "raised"
            /\ t_err' = TranslatorValueError
            /\ t_map' = <<>>
            /\ t_protected' = <<>>
            /\ t_placeholders' = <<>>
            /\ t_chunks' = <<>>
            /\ UNCHANGED t_glossary
       ELSE LET merged    == MergeGlossary(t_glossary, extra)
                map       == IF op = "e2c" THEN merged ELSE InvertGlossary(merged)
                pr        == ProtectTerms(text, map)
                sentences == SplitSentences(pr[1])
            IN  /\ t_pc' = "translating"
                /\ t_err' = None
                /\ t_map' = map
                /\ t_glossary' = merged
                /\ t_protected' = pr[1]
                /\ t_placeholders' = pr[2]
                /\ t_chunks' = IF sentences = <<>> THEN <<pr[1]>> ELSE sentences

\* the start of a public method: validation, glossary merge, protection and
\* sentence split, up to the first engine.translate call
TrStart(op, text, extra) ==
    /\ t_op' = op
    /\ t_text' = text
    /\ t_extra' = extra
    /\ t_sent' = <<>>
    /\ t_parts' = <<>>
    /\ t_out' = <<>>
    /\ UNCHANGED t_glossary
    /\ IF IsBlank(text)
       THEN /\ t_pc' = "raised"
            /\ t_err' = TranslatorValueError
            /\ t_map' = <<>>
            /\ t_protected' = <<>>
            /\ t_placeholders' = <<>>
            /\ t_chunks' = <<>>
       ELSE LET merged    == MergeGlossary(t_glossary, extra)
                map       == IF op = "e2c" THEN merged ELSE InvertGlossary(merged)
                pr        == ProtectTerms(text, map)
                sentences == SplitSentences(pr[1])
            IN  /\ t_pc' = "translating"
                /\ t_err' = None
                /\ t_map' = map
                /\ t_protected' = pr[1]
                /\ t_placeholders' = pr[2]
                /\ t_chunks' = IF sentences = <<>> THEN <<pr[1]>> ELSE sentences

\* engine.translate returns: the next chunk follows, or after the last one
\* the parts are joined and the terms restored
TrReturn(result) ==
    /\ t_pc = "translating"
    /\ t_sent' = Append(t_sent, Head(t_chunks))
    /\ t_parts' = Append(t_parts, result)
    /\ t_chunks' = Tail(t_chunks)
    /\ IF Tail(t_chunks) = <<>>
       THEN /\ t_out' = RestoreTerms(JoinWith(t_parts', <<" ">>), t_placeholders)
            /\ t_pc' = "done"
       ELSE UNCHANGED <<t_out, t_pc>>
    /\ UNCHANGED <<t_glossary, t_op, t_text, t_extra, t_map, t_protected,
                   t_placeholders, t_err>>

\* engine.translate raises: the exception leaves the method
TrRaise ==
    /\ t_pc = "translating"
    /\ t_sent' = Append(t_sent, Head(t_chunks))
    /\ t_pc' = "raised"
    /\ t_err' = TranslationError
    /\ UNCHANGED <<t_glossary, t_op, t_text, t_extra, t_map, t_protected,
                   t_placeholders, t_chunks, t_parts, t_out>>

-----------------------------------------------------------------------------
(* optimizer.py                                                            *)

SystemPromptError == "ValueError: system_prompt must not be empty."

UserMessageError == "ValueError: user_message must not be empty."

CompletionError == "CompletionError"

ValueErrors == {SystemPromptError, UserMessageError, TranslatorValueError}

\* ChinesePromptOptimizer.__init__: the attributes of the new object; the
\* keyword arguments it does not name land in litellm_kwargs
OptimizerNew(args) ==
    [ translate_response  |-> args.translate_response,
      temperature         |-> enforce_temperature(args.temperature),
      use_cot             |-> args.use_cot,
      use_self_reflect    |-> args.use_self_reflect,
      hallucination_guard |-> args.hallucination_guard,
      few_shot_examples   |-> IF args.few_shot_examples = None
                              THEN <<>> ELSE args.few_shot_examples,
      api_key             |-> args.api_key,
      api_base            |-> args.api_base,
      litellm_kwargs      |-> args.litellm_kwargs ]

\* Translator.__init__: glossary or {}
TranslatorNew(glossary) == IF glossary = None THEN <<>> ELSE glossary

\* the few-shot messages put after the user message
messages_examples_last(self, guarded_prompt, user_message) ==
    <<[role |-> "system", content |-> guarded_prompt]>>
    \o <<[role |-> "user", content |-> user_message]>>
    \o (IF self.few_shot_examples # <<>>
        THEN build_few_shot_messages(self.few_shot_examples) ELSE <<>>)

\* ChinesePromptOptimizer._build_messages
build_messages(self, guarded_prompt, user_message) ==
    <<[role |-> "system", content |-> guarded_prompt]>>
    \o (IF self.few_shot_examples # <<>>
        THEN build_few_shot_messages(self.few_shot_examples) ELSE <<>>)
    \o <<[role |-> "user", content |-> user_message]>>

\* the keyword arguments ChinesePromptOptimizer._call_litellm hands to
\* litellm.completion
call_kwargs(self) ==
    LET k1 == DictSet(self.litellm_kwargs, "temperature", self.temperature)
        k2 == IF self.api_key # None THEN DictSet(k1, "api_key", self.api_key) ELSE k1
    IN  IF self.api_base # None THEN DictSet(k2, "api_base", self.api_base) ELSE k2

\* the context block put after the user message
messages_context_last(self, args, chinese_system_prompt) ==
    LET guarded_prompt ==
            build_guarded_prompt(chinese_system_prompt, TRUE,
                                 self.use_cot, self.use_self_reflect)
        snippets == args.context_snippets
    IN  build_messages(self, guarded_prompt,
                       IF snippets # None /\ snippets # <<>>
                       THEN args.user_message \o <<"\n", "\n">>
                            \o build_rag_context_block(snippets)
                       ELSE args.user_message)

\* steps 2 to 5 of complete(), entered when the system prompt is translated:
\* the messages of the completion call
completion_messages(self, args, chinese_system_prompt) ==
    LET guarded_prompt ==
            build_guarded_prompt(chinese_system_prompt, TRUE,
                                 self.use_cot, self.use_self_reflect)
        snippets == args.context_snippets
        context_block ==
            IF snippets = None THEN <<>> ELSE build_rag_context_block(snippets)
        effective_user_message ==
            IF snippets # None /\ snippets # <<>> /\ context_block # <<>>
            THEN context_block \o <<"\n", "\n">> \o args.user_message
            ELSE args.user_message
    IN  build_messages(self, guarded_prompt, effective_user_message)

\* a result dict that carries every optional key, filled or not
result_with_placeholders(self, args, chinese_system_prompt, raw, english_response) ==
    << <<"response", english_response>>, <<"raw_response", raw>>,
       <<"grounding",
         IF self.hallucination_guard
         THEN check_source_grounding(args.user_message, english_response, 0)
         ELSE None>>,
       <<"savings",
         IF args.return_savings
         THEN token_savings_report(args.system_prompt, chinese_system_prompt)
         ELSE None>> >>

\* the result dict with a grounding check that asks for a full overlap
complete_result_strict(self, args, chinese_system_prompt, raw, english_response) ==
    LET r0 == << <<"response", english_response>>, <<"raw_response", raw>> >>
        r1 == IF self.hallucination_guard
              THEN DictSet(r0, "grounding",
                           check_source_grounding(args.user_message,
                                                  english_response, 1000))
              ELSE r0
    IN  IF args.return_savings
        THEN DictSet(r1, "savings",
                     token_savings_report(args.system_prompt, chinese_system_prompt))
        ELSE r1

\* steps 6 (end) to 8 of complete(): the result dict
complete_result(self, args, chinese_system_prompt, raw, english_response) ==
    LET r0 == << <<"response", english_response>>, <<"raw_response", raw>> >>
        r1 == IF self.hallucination_guard
              THEN DictSet(r0, "grounding",
                           check_source_grounding(args.user_message,
                                                  english_response, 0))
              ELSE r0
    IN  IF args.return_savings
        THEN DictSet(r1, "savings",
                     token_savings_report(args.system_prompt, chinese_system_prompt))
        ELSE r1

\* the system prompt is translated: the completion call is issued
OptIssueCompletion(chinese) ==
    /\ o_chinese' = chinese
    /\ o_calls' = Append(o_calls,
                         [ messages |-> completion_messages(o_self, o_args, chinese),
                           kwargs   |-> call_kwargs(o_self),
                           status   |-> "running" ])
    /\ o_pc' = "completion"
    /\ UNCHANGED <<o_ctor, o_self, o_args, o_raw, o_result, o_err>>

\* the response is in English: complete() returns
OptReturn(english_response, raw) ==
    /\ o_result' = complete_result(o_self, o_args, o_chinese, raw, english_response)
    /\ o_pc' = "returned"
    /\ o_raw' = raw
    /\ UNCHANGED <<o_ctor, o_self, o_args, o_chinese, o_err>>

\* the exception is caught and an empty answer returned
OptSwallow(err) ==
    /\ o_pc' = "returned"
    /\ o_result' = << <<"response", <<>>>> >>
    /\ UNCHANGED <<o_ctor, o_self, o_args, o_chinese, o_err>>

\* an exception leaves complete(): nothing in complete() catches it
OptRaise(err) ==
    /\ o_pc' = "raised"
    /\ o_err' = err
    /\ UNCHANGED <<o_ctor, o_self, o_args, o_chinese, o_result>>

-----------------------------------------------------------------------------
(* sot.py                                                                  *)

\* _SKELETON_SYSTEM_ZH, a fixed block of text
SKELETON_SYSTEM_ZH == <<"[SKELETON_SYSTEM_ZH]">>

\* _SKELETON_TEMPLATE_ZH.format(question=...): the question ends the template
skeleton_user(question) == <<"[SKELETON_TEMPLATE_ZH]">> \o question

\* _EXPAND_TEMPLATE_ZH.format(point=...): the point ends the template
expand_user(point) == <<"[EXPAND_TEMPLATE_ZH]">> \o point

HorizChars == {" ", "\t"}

\* the dash as the only bullet
DashOnly == {"-"}

\* "-", "*" and the bullet U+2022, written "(bullet)"
BulletChars == {"-", "*", "(bullet)"}

\* the pieces of s between the occurrences of "\n", from position i on
RECURSIVE SplitNewlineFrom(_, _)
SplitNewlineFrom(s, i) ==
    LET hits == {j \in i..Len(s) : s[j] = "\n"}
    IN  IF hits = {}
        THEN <<SubSeq(s, i, Len(s))>>
        ELSE LET j == CHOOSE h \in hits : \A g \in hits : h <= g
             IN  <<SubSeq(s, i, j - 1)>> \o SplitNewlineFrom(s, j + 1)

\* the lines at which ^ and $ of a MULTILINE pattern anchor
RegexLines(s) == SplitNewlineFrom(s, 1)

\* str.splitlines: no empty last line after a final line break
SplitLines(s) ==
    IF s = <<>> THEN <<>>
    ELSE LET all == SplitNewlineFrom(s, 1)
         IN  IF s[Len(s)] = "\n" THEN SubSeq(all, 1, Len(all) - 1) ELSE all

\* the first position from i on that holds no blank or tab
RECURSIVE SkipHoriz(_, _)
SkipHoriz(s, i) ==
    IF i <= Len(s) /\ s[i] \in HorizChars THEN SkipHoriz(s, i + 1) ELSE i

\* _POINT_PATTERN on one line: <<group 1>> when the line matches, else <<>>
PointMatch(line) ==
    LET i == SkipHoriz(line, 1)
        d == IF i <= Len(line) THEN DigitRun(line, i) ELSE 0
        afterMarker ==
            IF d > 0 /\ i + d <= Len(line) /\ line[i + d] \in {".", ")"}
            THEN i + d + 1
            ELSE IF d = 0 /\ i <= Len(line) /\ line[i] \in BulletChars
                 THEN i + 1
                 ELSE 0
        g == IF afterMarker = 0 THEN 0 ELSE SkipHoriz(line, afterMarker)
    IN  IF afterMarker # 0 /\ g <= Len(line) /\ ~IsWs(line[g])
        THEN <<SubSeq(line, g, Len(line))>>
        ELSE <<>>

\* _POINT_PATTERN.findall(text)
RECURSIVE FindAllPoints(_)
FindAllPoints(lines) ==
    IF lines = <<>> THEN <<>>
    ELSE PointMatch(Head(lines)) \o FindAllPoints(Tail(lines))

\* [x.strip() for x in items if x.strip()]
RECURSIVE StripNonEmpty(_)
StripNonEmpty(items) ==
    IF items = <<>> THEN <<>>
    ELSE (IF Strip(Head(items)) # <<>> THEN <<Strip(Head(items))>> ELSE <<>>)
         \o StripNonEmpty(Tail(items))

\* the non-blank lines, whatever markers the text has
lines_only(text) == StripNonEmpty(SplitLines(text))

\* SkeletonOfThought.parse_skeleton
parse_skeleton(text) ==
    LET matches == FindAllPoints(RegexLines(text))
    IN  IF matches # <<>>
        THEN StripNonEmpty(matches)
        ELSE StripNonEmpty(SplitLines(text))

\* the skeleton as the parser gives it, with no fallback
ParsedOnly(skeleton_text) == parse_skeleton(skeleton_text)

\* the points complete() expands: the parsed ones, or the whole text as one
skeleton_points(skeleton_text) ==
    LET points == parse_skeleton(skeleton_text)
    IN  IF points = <<>> THEN <<Strip(skeleton_text)>> ELSE points

\* SkeletonOfThought.__init__
SotNew(args) ==
    [ temperature    |-> args.temperature,
      parallel       |-> args.parallel,
      max_workers    |-> args.max_workers,
      api_key        |-> args.api_key,
      api_base       |-> args.api_base,
      litellm_kwargs |-> args.litellm_kwargs ]

\* the keyword arguments SkeletonOfThought._call_litellm hands to
\* litellm.completion
sot_call_kwargs(self) ==
    LET k1 == DictSet(self.litellm_kwargs, "temperature", self.temperature)
        k2 == IF self.api_key # None THEN DictSet(k1, "api_key", self.api_key) ELSE k1
    IN  IF self.api_base # None THEN DictSet(k2, "api_base", self.api_base) ELSE k2

\* the Stage-1 call of _generate_skeleton
skeleton_call(self, args) ==
    [ stage    |-> 1,
      index    |-> 0,
      point    |-> <<>>,
      messages |-> << [role |-> "system",
                       content |-> args.system_prompt \o <<"\n">> \o SKELETON_SYSTEM_ZH],
                      [role |-> "user", content |-> skeleton_user(args.user_message)] >>,
      kwargs   |-> sot_call_kwargs(self),
      status   |-> "running",
      content  |-> None ]

\* a Stage-2 call that carries the system prompt of Stage 1
expand_call_as_skeleton(self, args, index, point) ==
    [ stage    |-> 2,
      index    |-> index,
      point    |-> point,
      messages |-> << [role |-> "system",
                       content |-> args.system_prompt \o <<"\n">> \o SKELETON_SYSTEM_ZH],
                      [role |-> "user", content |-> expand_user(point)] >>,
      kwargs   |-> sot_call_kwargs(self),
      status   |-> "running",
      content  |-> None ]

\* the Stage-2 call of _expand_one for the point at position index
expand_call(self, args, index, point) ==
    [ stage    |-> 2,
      index    |-> index,
      point    |-> point,
      messages |-> << [role |-> "system", content |-> args.system_prompt],
                      [role |-> "user", content |-> expand_user(point)] >>,
      kwargs   |-> sot_call_kwargs(self),
      status   |-> "running",
      content  |-> None ]

\* the raw response of call number k
RawResponse(calls, k) == [id |-> k, content |-> calls[k].content]

\* raw.choices[0].message.content or ""
ContentOrEmpty(content) == IF content = None THEN <<>> ELSE content

\* the worker threads of ThreadPoolExecutor(max_workers): None, written
\* <<>>, makes min(32, cpu_count + 4) of them, at least DefaultWorkers
PoolSize(max_workers) ==
    IF max_workers = <<>> THEN DefaultWorkers ELSE max_workers[1]

\* the tasks whose Stage-2 call has neither returned nor raised
Unfinished(tasks) ==
    {i \in 1..Len(tasks) : tasks[i].st \in {"queued", "running"}}

\* no task is taken as failed
NoFailedTasks(tasks) == {}

\* the tasks whose call raised: for these f.result() raises, and in
\* sequential mode _expand_one does
FailedTasks(tasks) == {i \in 1..Len(tasks) : tasks[i].st = "err"}

\* the results in the order the calls finished
ResultsInCompletionOrder(tasks, calls, done) ==
    [i \in 1..Len(tasks) |->
        << ContentOrEmpty(calls[tasks[done[i]].call].content),
           RawResponse(calls, tasks[done[i]].call) >>]

\* results: one (text, raw) pair per point, in the order of the points
expand_results(tasks, calls, done) ==
    [i \in 1..Len(tasks) |->
        << ContentOrEmpty(calls[tasks[i].call].content),
           RawResponse(calls, tasks[i].call) >>]

\* the dict complete() returns
sot_result(points, results, raw_skeleton) ==
    LET expanded == [i \in 1..Len(results) |-> results[i][1]]
        raws     == [i \in 1..Len(results) |-> results[i][2]]
    IN  << <<"response", JoinWith(expanded, <<"\n", "\n">>)>>,
           <<"skeleton", points>>,
           <<"expanded_points", expanded>>,
           <<"raw_skeleton", raw_skeleton>>,
           <<"raw_expansions", raws>> >>

\* the error that left the call numbered k
CallError(k) == <<"CompletionError", k>>

PoolValueError == <<"ValueError: max_workers must be greater than 0", 0>>

-----------------------------------------------------------------------------
(* Inputs of the Translator, of the optimizer and of SkeletonOfThought.     *)

Txt_a == <<"a">>

Txt_x == <<"x">>

\* the texts handed to the two public methods
TrTexts ==
    { <<>>,
      <<" ">>,
      <<" ", "\n">>,
      <<"a">>,
      <<"b", " ", "a">>,
      <<"a", ".", " ", "b">>,
      <<"b", "!", " ", " ", "a", "?">>,
      <<"a", ".", "b">>,
      <<"x">>,
      <<"x", ".", "\n", "y", " ", "x">> }

\* instance glossaries
TrGlossaries ==
    { <<>>,
      << <<Txt_a, Txt_a>> >>,
      << <<Txt_a, Txt_x>> >>,
      << <<<<"b">>, <<"y">>>>, <<Txt_a, Txt_x>> >>,
      << <<Txt_a, Txt_x>>, <<<<"b", " ", "a">>, <<"w">>>> >> }

\* per-call glossaries
TrExtras ==
    { None,
      << <<Txt_a, <<"y">>>> >> }

\* the constructor's defaults (optimizer.py, lines 92 to 102)
DefaultCtor ==
    [ temperature         |-> DEFAULT_TEMPERATURE,
      translate_response  |-> TRUE,
      glossary            |-> None,
      use_cot             |-> FALSE,
      use_self_reflect    |-> FALSE,
      hallucination_guard |-> TRUE,
      few_shot_examples   |-> None,
      api_key             |-> None,
      api_base            |-> None,
      litellm_kwargs      |-> <<>> ]

\* the values tried for each constructor argument
CtorSpace ==
    [ temperature         : {DEFAULT_TEMPERATURE, 5, 30, 45, NaN},
      translate_response  : BOOLEAN,
      glossary            : {None, << <<Txt_a, Txt_x>> >>},
      use_cot             : BOOLEAN,
      use_self_reflect    : BOOLEAN,
      hallucination_guard : BOOLEAN,
      few_shot_examples   : { None,
                              <<[user |-> <<"q">>, assistant |-> <<"r">>]>>,
                              <<[user |-> <<"q">>, assistant |-> <<"r">>],
                                [user |-> <<"b">>, assistant |-> <<"y">>]>>,
                              <<[assistant |-> <<"r">>],
                                [user |-> <<"b">>, assistant |-> <<"y">>]>> },
      api_key             : {None, "key"},
      api_base            : {None},
      litellm_kwargs      : { <<>>,
                              << <<"use_sot", TRUE>>, <<"sot_parallel", FALSE>> >>,
                              << <<"use_sot", FALSE>> >> } ]

\* constructor calls that set at most MaxNonDefault arguments
OptCtorArgs ==
    { c \in CtorSpace :
        Cardinality({f \in DOMAIN c : c[f] # DefaultCtor[f]}) <= MaxNonDefault }

OptCallArgs ==
    [ system_prompt    : { <<>>, <<" ">>, <<"b", " ", "a", ".">> },
      user_message     : { <<>>, <<"\n">>, <<"w", "h", "a", "t", " ", "a">> },
      return_savings   : BOOLEAN,
      extra_glossary   : TrExtras,
      context_snippets : { None, <<>>, << <<" ", "s">> >> } ]

\* the message content of a completion; None stands for a missing content
CompletionContents ==
    { None, <<>>, <<" ">>, <<"x">>, <<"W", "h", "a", "t", ".", " ", "x">> }

\* the arguments SkeletonOfThought is built with
SotCtorArgs ==
    [ temperature    : {DEFAULT_TEMPERATURE, 70},
      parallel       : BOOLEAN,
      max_workers    : { <<>>, <<0>>, <<1>>, <<2>> },
      api_key        : {None},
      api_base       : {None},
      litellm_kwargs : { <<>> } ]

SotCallArgs ==
    [ system_prompt : { <<"s">> },
      user_message  : { <<>>, <<"q">> } ]

\* the message content of the Stage-1 completion
SkeletonContents ==
    { None,
      <<>>,
      <<" ", "\n">>,
      <<"a">>,
      <<"a", "\n", "\n", " ", "b", " ", "\n">>,
      <<"1", ".", " ", "a">>,
      <<"1", ".", " ", "a", "\n", "2", ")", "b", " ">>,
      <<"-", " ", "a", "\n", "-", " ", "a">>,
      <<"i", ":", "\n", "*", "a", "\n", "1", ".", " ", "\n", "(bullet)", " ", "-", "b">>,
      <<"1", ".", "a", "\n", " ", "2", ".", "\t", "b", "\n", "1", "0", ")", " ", "c", " ", "d">>,
      <<"1", ".", " ", "\n", "c">> }

\* the message content of a Stage-2 completion
ExpandContents == { None, <<"x">>, <<"y">> }

\* the temperatures handed to enforce_temperature, in hundredths
Temperatures == (-MaxTemperature .. MaxTemperature) \cup {NaN}


-----------------------------------------------------------------------------
(* The actions.                                                            *)

InitCall ==
    /\ t_op = "none"
    /\ t_text = <<>>
    /\ t_extra = None
    /\ t_map = <<>>
    /\ t_protected = <<>>
    /\ t_placeholders = <<>>
    /\ t_chunks = <<>>
    /\ t_sent = <<>>
    /\ t_parts = <<>>
    /\ t_pc = "idle"
    /\ t_out = <<>>
    /\ t_err = None

InitOptCall ==
    /\ o_args = None
    /\ o_chinese = None
    /\ o_calls = <<>>
    /\ o_raw = None
    /\ o_result = None
    /\ o_err = None

\* no optimizer was built
InitNoOptimizer ==
    /\ o_ctor = None
    /\ o_self = None
    /\ o_pc = "absent"
    /\ InitOptCall

\* _protect_terms(text, glossary), then _restore_terms on its two results
RoundTrip ==
    /\ t_pc = "idle"
    /\ \E text \in RtTexts, g \in RtDicts :
          LET pr == ProtectTerms(text, g)
          IN  /\ t_op' = "roundtrip"
              /\ t_text' = text
              /\ t_map' = g
              /\ t_protected' = pr[1]
              /\ t_placeholders' = pr[2]
              /\ t_out' = RestoreTerms(pr[1], pr[2])
              /\ t_pc' = "done"
    /\ UNCHANGED <<t_glossary, t_extra, t_chunks, t_sent, t_parts, t_err>>
    /\ UNCHANGED <<ovars, svars, fvars>>

\* the translator's per-call state is dropped
TrForget ==
    /\ t_op' = "none"
    /\ t_text' = <<>>
    /\ t_extra' = None
    /\ t_map' = <<>>
    /\ t_protected' = <<>>
    /\ t_placeholders' = <<>>
    /\ t_chunks' = <<>>
    /\ t_sent' = <<>>
    /\ t_parts' = <<>>
    /\ t_pc' = "idle"
    /\ t_out' = <<>>
    /\ t_err' = None
    /\ UNCHANGED t_glossary

\* the caller has taken the result of the round trip
RoundTripReset ==
    /\ t_pc = "done"
    /\ t_op = "roundtrip"
    /\ TrForget
    /\ UNCHANGED <<ovars, svars, fvars>>

\* the caller has taken the result or the exception of a Translator method
TranslatorCallEnds ==
    /\ t_pc \in {"done", "raised"}
    /\ t_op \in TrOps
    /\ o_pc \in {"absent", "idle"}
    /\ TrForget
    /\ UNCHANGED <<ovars, svars, fvars>>

\* the caller has taken the result or the exception of complete()
OptimizerCallEnds ==
    /\ o_pc \in {"returned", "raised"}
    /\ TrForget
    /\ o_pc' = "idle"
    /\ o_args' = None
    /\ o_chinese' = None
    /\ o_calls' = <<>>
    /\ o_raw' = None
    /\ o_result' = None
    /\ o_err' = None
    /\ UNCHANGED <<o_ctor, o_self>>
    /\ UNCHANGED <<svars, fvars>>

\* a caller invokes english_to_chinese or chinese_to_english
TranslatorCall ==
    /\ t_pc = "idle"
    /\ o_pc \in {"absent", "idle"}
    /\ \E op \in TrOps, text \in TrTexts, extra \in TrExtras :
          TrStart(op, text, extra)
    /\ UNCHANGED <<ovars, svars, fvars>>

\* engine.translate returns; when that ends a translation complete() asked
\* for, complete() goes on to its next external call or to its end
EngineReturn ==
    /\ t_pc = "translating"
    /\ \E result \in EngineResults(Head(t_chunks), t_op) : TrReturn(result)
    /\ IF o_pc = "sys_translate" /\ t_pc' = "done"
       THEN OptIssueCompletion(t_out')
       ELSE IF o_pc = "resp_translate" /\ t_pc' = "done"
            THEN OptReturn(t_out', o_raw) /\ UNCHANGED o_calls
            ELSE UNCHANGED ovars
    /\ UNCHANGED <<svars, fvars>>

\* engine.translate raises
EngineRaise ==
    /\ TrRaise
    /\ IF o_pc \in {"sys_translate", "resp_translate"}
       THEN OptRaise(t_err') /\ UNCHANGED <<o_calls, o_raw>>
       ELSE UNCHANGED ovars
    /\ UNCHANGED <<svars, fvars>>

\* ChinesePromptOptimizer.complete is called: validation, then the
\* translation of the system prompt up to its first engine.translate call
OptimizerCall ==
    /\ o_pc = "idle"
    /\ t_pc = "idle"
    /\ \E args \in OptCallArgs :
          /\ o_args' = args
          /\ o_calls' = <<>>
          /\ o_chinese' = None
          /\ o_raw' = None
          /\ o_result' = None
          /\ UNCHANGED <<o_ctor, o_self>>
          /\ IF IsBlank(args.system_prompt)
             THEN /\ o_pc' = "raised"
                  /\ o_err' = SystemPromptError
                  /\ UNCHANGED tvars
             ELSE IF IsBlank(args.user_message)
                  THEN /\ o_pc' = "raised"
                       /\ o_err' = UserMessageError
                       /\ UNCHANGED tvars
                  ELSE /\ TrStart("e2c", args.system_prompt, args.extra_glossary)
                       /\ o_pc' = IF t_pc' = "raised" THEN "raised" ELSE "sys_translate"
                       /\ o_err' = t_err'
    /\ UNCHANGED <<svars, fvars>>

\* litellm.completion returns: the content is translated back, or returned
\* as it is
CompletionReturn ==
    /\ o_pc = "completion"
    /\ \E content \in CompletionContents :
          LET raw         == [id |-> Len(o_calls), content |-> content]
              raw_content == IF content = None THEN <<>> ELSE content
          IN  /\ o_calls' = [o_calls EXCEPT ![Len(o_calls)].status = "ok"]
              /\ IF o_self.translate_response
                 THEN /\ TrStart("c2e", raw_content, o_args.extra_glossary)
                      /\ IF t_pc' = "raised"
                         THEN /\ OptRaise(t_err')
                              /\ o_raw' = raw
                         ELSE /\ o_pc' = "resp_translate"
                              /\ o_raw' = raw
                              /\ UNCHANGED <<o_ctor, o_self, o_args, o_chinese, o_result, o_err>>
                 ELSE /\ OptReturn(raw_content, raw)
                      /\ UNCHANGED tvars
    /\ UNCHANGED <<svars, fvars>>

\* litellm.completion raises
CompletionRaise ==
    /\ o_pc = "completion"
    /\ OptRaise(CompletionError)
    /\ o_calls' = [o_calls EXCEPT ![Len(o_calls)].status = "err"]
    /\ UNCHANGED o_raw
    /\ UNCHANGED tvars
    /\ UNCHANGED <<svars, fvars>>

InitSotCall ==
    /\ s_args = None
    /\ s_calls = <<>>
    /\ s_raw_skeleton = None
    /\ s_points = <<>>
    /\ s_tasks = <<>>
    /\ s_done = <<>>
    /\ s_result = None
    /\ s_err = None

\* no function is applied on its own
InitNoFunction ==
    /\ f_name = "none"
    /\ f_args = <<>>
    /\ f_result = None

\* no SkeletonOfThought was built
InitNoSot ==
    /\ s_self = None
    /\ s_pc = "absent"
    /\ InitSotCall
    /\ InitNoFunction

\* Stage 2 is over: complete() raises the error of the first failed point,
\* or assembles and returns its dict
SotFinish(tasks, calls, done) ==
    LET failed == FailedTasks(tasks)
    IN  IF failed # {}
        THEN /\ s_pc' = "raised"
             /\ s_err' = CallError(tasks[CHOOSE i \in failed : \A j \in failed : i <= j].call)
             /\ UNCHANGED s_result
        ELSE /\ s_pc' = "returned"
             /\ s_result' = sot_result(s_points, expand_results(tasks, calls, done),
                                       s_raw_skeleton)
             /\ UNCHANGED s_err

\* SkeletonOfThought.complete is called: the Stage-1 call is issued
SotCall ==
    /\ s_pc = "idle"
    /\ \E args \in SotCallArgs :
          /\ s_args' = args
          /\ s_calls' = <<skeleton_call(s_self, args)>>
    /\ s_pc' = "skeleton"
    /\ UNCHANGED <<s_self, s_raw_skeleton, s_points, s_tasks, s_done, s_result, s_err>>
    /\ UNCHANGED <<tvars, ovars, fvars>>

\* the Stage-1 call returns: the skeleton is parsed and Stage 2 begins,
\* with all tasks submitted to the pool or with the call for the first point
SkeletonReturn ==
    /\ s_pc = "skeleton"
    /\ \E content \in SkeletonContents :
          LET skeleton_text == ContentOrEmpty(content)
              points == skeleton_points(skeleton_text)
              calls1 == [s_calls EXCEPT ![1].status = "ok", ![1].content = content]
              queued == [i \in 1..Len(points) |-> [st |-> "queued", call |-> 0]]
          IN  /\ s_raw_skeleton' = [id |-> 1, content |-> content]
              /\ s_points' = points
              /\ s_done' = <<>>
              /\ IF s_self.parallel /\ Len(points) > 1
                 THEN IF PoolSize(s_self.max_workers) <= 0
                      THEN /\ s_pc' = "raised"
                           /\ s_err' = PoolValueError
                           /\ s_calls' = calls1
                           /\ s_tasks' = <<>>
                           /\ UNCHANGED s_result
                      ELSE /\ s_pc' = "expanding_parallel"
                           /\ s_calls' = calls1
                           /\ s_tasks' = queued
                           /\ UNCHANGED <<s_result, s_err>>
                 ELSE IF points = <<>>
                      THEN /\ s_calls' = calls1
                           /\ s_tasks' = <<>>
                           /\ s_pc' = "returned"
                           /\ s_result' = sot_result(points, <<>>, s_raw_skeleton')
                           /\ UNCHANGED s_err
                      ELSE /\ s_pc' = "expanding"
                           /\ s_calls' = Append(calls1,
                                                expand_call(s_self, s_args, 1, points[1]))
                           /\ s_tasks' = [queued EXCEPT ![1] = [st |-> "running", call |-> 2]]
                           /\ UNCHANGED <<s_result, s_err>>
    /\ UNCHANGED <<s_self, s_args>>
    /\ UNCHANGED <<tvars, ovars, fvars>>

\* the Stage-1 call raises
SkeletonRaise ==
    /\ s_pc = "skeleton"
    /\ s_calls' = [s_calls EXCEPT ![1].status = "err"]
    /\ s_pc' = "raised"
    /\ s_err' = CallError(1)
    /\ UNCHANGED <<s_self, s_args, s_raw_skeleton, s_points, s_tasks, s_done, s_result>>
    /\ UNCHANGED <<tvars, ovars, fvars>>

\* a worker thread takes the next queued task and issues its call; the
\* queue is first-in first-out and every unfinished task before this one
\* holds a worker
WorkerStart ==
    /\ s_pc = "expanding_parallel"
    /\ \E i \in 1..Len(s_tasks) :
          /\ s_tasks[i].st = "queued"
          /\ Cardinality({j \in Unfinished(s_tasks) : j < i}) < PoolSize(s_self.max_workers)
          /\ s_calls' = Append(s_calls, expand_call(s_self, s_args, i, s_points[i]))
          /\ s_tasks' = [s_tasks EXCEPT ![i] = [st |-> "running", call |-> Len(s_calls) + 1]]
    /\ UNCHANGED <<s_self, s_args, s_raw_skeleton, s_points, s_done, s_pc, s_result, s_err>>
    /\ UNCHANGED <<tvars, ovars, fvars>>

\* what follows the end of the call of task i when the first failure ends
\* Stage 2 without waiting for the other tasks
AfterExpansionNoJoin(i, tasks, calls) ==
    /\ s_done' = Append(s_done, i)
    /\ IF s_pc = "expanding"
       THEN IF tasks[i].st = "ok" /\ i < Len(tasks)
            THEN /\ s_calls' = Append(calls, expand_call(s_self, s_args, i + 1, s_points[i + 1]))
                 /\ s_tasks' = [tasks EXCEPT ![i + 1] = [st |-> "running", call |-> Len(calls) + 1]]
                 /\ UNCHANGED <<s_pc, s_result, s_err>>
            ELSE /\ s_calls' = calls
                 /\ s_tasks' = tasks
                 /\ SotFinish(tasks, calls, s_done')
       ELSE /\ s_calls' = calls
            /\ s_tasks' = tasks
            /\ IF Unfinished(tasks) = {} \/ tasks[i].st = "err"
               THEN SotFinish(tasks, calls, s_done')
               ELSE UNCHANGED <<s_pc, s_result, s_err>>
    /\ UNCHANGED <<s_self, s_args, s_raw_skeleton, s_points>>

\* what follows the end of the call of task i, its outcome recorded in
\* tasks and calls.  Sequential mode: the call for the next point, the end of
\* Stage 2 after the last point, the exception at once when the call raised.
\* Parallel mode: the executor's shutdown(wait=True) lets every task run
\* before complete() goes on, so Stage 2 ends with the last task.
AfterExpansion(i, tasks, calls) ==
    /\ s_done' = Append(s_done, i)
    /\ IF s_pc = "expanding"
       THEN IF tasks[i].st = "ok" /\ i < Len(tasks)
            THEN /\ s_calls' = Append(calls, expand_call(s_self, s_args, i + 1, s_points[i + 1]))
                 /\ s_tasks' = [tasks EXCEPT ![i + 1] = [st |-> "running", call |-> Len(calls) + 1]]
                 /\ UNCHANGED <<s_pc, s_result, s_err>>
            ELSE /\ s_calls' = calls
                 /\ s_tasks' = tasks
                 /\ SotFinish(tasks, calls, s_done')
       ELSE /\ s_calls' = calls
            /\ s_tasks' = tasks
            /\ IF Unfinished(tasks) = {}
               THEN SotFinish(tasks, calls, s_done')
               ELSE UNCHANGED <<s_pc, s_result, s_err>>
    /\ UNCHANGED <<s_self, s_args, s_raw_skeleton, s_points>>

\* a Stage-2 call returns
ExpandReturn ==
    /\ s_pc \in {"expanding", "expanding_parallel"}
    /\ \E i \in 1..Len(s_tasks), content \in ExpandContents :
          /\ s_tasks[i].st = "running"
          /\ AfterExpansion(i,
                [s_tasks EXCEPT ![i].st = "ok"],
                [s_calls EXCEPT ![s_tasks[i].call].status = "ok",
                                ![s_tasks[i].call].content = content])
    /\ UNCHANGED <<tvars, ovars, fvars>>

\* a Stage-2 call raises
ExpandRaise ==
    /\ s_pc \in {"expanding", "expanding_parallel"}
    /\ \E i \in 1..Len(s_tasks) :
          /\ s_tasks[i].st = "running"
          /\ AfterExpansion(i,
                [s_tasks EXCEPT ![i].st = "err"],
                [s_calls EXCEPT ![s_tasks[i].call].status = "err"])
    /\ UNCHANGED <<tvars, ovars, fvars>>

\* the caller has taken the result or the exception of SoT complete()
SotCallEnds ==
    /\ s_pc \in {"returned", "raised"}
    /\ s_pc' = "idle"
    /\ s_args' = None
    /\ s_calls' = <<>>
    /\ s_raw_skeleton' = None
    /\ s_points' = <<>>
    /\ s_tasks' = <<>>
    /\ s_done' = <<>>
    /\ s_result' = None
    /\ s_err' = None
    /\ UNCHANGED s_self
    /\ UNCHANGED <<tvars, ovars, fvars>>


NextRoundTrip == RoundTrip \/ RoundTripReset

InitRoundTrip == InitCall /\ t_glossary = <<>> /\ InitNoOptimizer /\ InitNoSot

SpecRoundTrip == InitRoundTrip /\ [][NextRoundTrip]_vars

InitTranslator ==
    /\ InitCall
    /\ t_glossary \in TrGlossaries
    /\ InitNoOptimizer
    /\ InitNoSot

NextTranslator ==
    TranslatorCall \/ EngineReturn \/ EngineRaise \/ TranslatorCallEnds

SpecTranslator == InitTranslator /\ [][NextTranslator]_vars

\* the state after ChinesePromptOptimizer(...)
InitOptimizer ==
    /\ o_ctor \in OptCtorArgs
    /\ o_self = OptimizerNew(o_ctor)
    /\ t_glossary = TranslatorNew(o_ctor.glossary)
    /\ o_pc = "idle"
    /\ InitCall
    /\ InitOptCall
    /\ InitNoSot

NextOptimizer ==
    \/ OptimizerCall
    \/ TranslatorCall
    \/ EngineReturn
    \/ EngineRaise
    \/ CompletionReturn
    \/ CompletionRaise
    \/ TranslatorCallEnds
    \/ OptimizerCallEnds

SpecOptimizer == InitOptimizer /\ [][NextOptimizer]_vars

\* the state after SkeletonOfThought(...)
InitSot ==
    /\ \E c \in SotCtorArgs : s_self = SotNew(c)
    /\ s_pc = "idle"
    /\ InitSotCall
    /\ InitCall
    /\ t_glossary = <<>>
    /\ InitNoOptimizer
    /\ InitNoFunction

NextSot ==
    \/ SotCall
    \/ SkeletonReturn
    \/ SkeletonRaise
    \/ WorkerStart
    \/ ExpandReturn
    \/ ExpandRaise
    \/ SotCallEnds

SpecSot == InitSot /\ [][NextSot]_vars

\* HallucinationGuard.enforce_temperature is applied to a temperature
EnforceTemperature ==
    /\ f_name = "none"
    /\ \E temperature \in Temperatures :
          /\ f_args' = <<temperature>>
          /\ f_result' = enforce_temperature(temperature)
    /\ f_name' = "enforce_temperature"
    /\ UNCHANGED <<tvars, ovars, svars>>

\* the caller has taken the function's result
FunctionReturns ==
    /\ f_name # "none"
    /\ f_name' = "none"
    /\ f_args' = <<>>
    /\ f_result' = None
    /\ UNCHANGED <<tvars, ovars, svars>>

InitGuard ==
    /\ InitCall
    /\ t_glossary = <<>>
    /\ InitNoOptimizer
    /\ InitNoSot

\* the words the source texts are made of: key terms, one of them in two
\* spellings, and a word too short to be a key term
SourceWords ==
    { <<"w", "a", "x", "y">>, <<"W", "a", "x", "Y">>, <<"b", "a", "b", "y">>,
      <<"a", "b", "b", "a">>, <<"w", "a", "y">> }

\* source texts of no word, of one word, of two and of three
SourceTexts ==
    {<<>>}
    \cup SourceWords
    \cup {JoinWith(<<u, v>>, <<" ">>) : u \in SourceWords, v \in SourceWords}
    \cup {JoinWith(<<u, v, w>>, <<",", " ">>) :
             u \in SourceWords, v \in SourceWords, w \in SourceWords}

ResponseTexts ==
    { <<>>,
      <<" ">>,
      <<"w", "a", "y">>,
      <<"W", "A", "X", "Y">>,
      <<"x", "b", "a", "b", "y", "x">>,
      <<"b", "a", "b", "y", " ", "w", "a", "x", "y", ".">>,
      <<"a", "b", "b", "a", " ", "B", "a", "b", "y", " ", "w", "a", "x", "y">> }

\* thresholds, in thousandths
OverlapRatios == {0, 333, 334, 500, 1000}

\* HallucinationGuard.check_source_grounding is applied
CheckSourceGrounding ==
    /\ f_name = "none"
    /\ \E source_text \in SourceTexts, response_text \in ResponseTexts,
          min_overlap_ratio \in OverlapRatios :
          /\ f_args' = <<source_text, response_text, min_overlap_ratio>>
          /\ f_result' = check_source_grounding(source_text, response_text,
                                                min_overlap_ratio)
    /\ f_name' = "check_source_grounding"
    /\ UNCHANGED <<tvars, ovars, svars>>

\* the base prompts and the snippets tried
GuardTexts == SeqsUpTo({"a", " ", "\n"}, MaxTextLen)

\* HallucinationGuard.build_guarded_prompt is applied
BuildGuardedPrompt ==
    /\ f_name = "none"
    /\ \E chinese_prompt \in GuardTexts,
          use_idk_rule \in BOOLEAN, use_cot \in BOOLEAN, use_self_reflect \in BOOLEAN :
          /\ f_args' = <<chinese_prompt, use_idk_rule, use_cot, use_self_reflect>>
          /\ f_result' = build_guarded_prompt(chinese_prompt, use_idk_rule,
                                              use_cot, use_self_reflect)
    /\ f_name' = "build_guarded_prompt"
    /\ UNCHANGED <<tvars, ovars, svars>>

\* snippet lists: none, one snippet, two, and a list of ten
SnippetLists ==
    {<<>>, [i \in 1..10 |-> <<"a">>]}
    \cup {<<u>> : u \in GuardTexts}
    \cup {<<u, v>> : u \in GuardTexts, v \in GuardTexts}

\* HallucinationGuard.build_rag_context_block is applied
BuildRagContextBlock ==
    /\ f_name = "none"
    /\ \E snippets \in SnippetLists :
          /\ f_args' = <<snippets>>
          /\ f_result' = build_rag_context_block(snippets)
    /\ f_name' = "build_rag_context_block"
    /\ UNCHANGED <<tvars, ovars, svars>>

NextGuard ==
    \/ EnforceTemperature
    \/ CheckSourceGrounding
    \/ BuildGuardedPrompt
    \/ BuildRagContextBlock
    \/ FunctionReturns

\* the largest token count the encoder is taken to give
MaxTokens == 12

\* token_savings_report is applied to two texts the encoder gives en_tokens
\* and zh_tokens for
TokenSavingsReport ==
    /\ f_name = "none"
    /\ \E en_tokens \in 0..MaxTokens, zh_tokens \in 0..MaxTokens :
          /\ f_args' = <<en_tokens, zh_tokens>>
          /\ f_result' = savings_report(en_tokens, zh_tokens)
    /\ f_name' = "token_savings_report"
    /\ UNCHANGED <<tvars, ovars, svars>>

NextUtils == TokenSavingsReport \/ FunctionReturns

SpecUtils == InitGuard /\ [][NextUtils]_vars

SpecGuard == InitGuard /\ [][NextGuard]_vars

\* the markers an outline can be written with
MarkerStyles == <<"1.", "1)", "-", "*", "(bullet)">>

\* the marker of the i-th point of an outline
Marker(style, i) ==
    CASE style = "1." -> Decimal(i) \o <<".">>
      [] style = "1)" -> Decimal(i) \o <<")">>
      [] OTHER        -> <<style>>

\* an outline: one line per point, made of the marker, a blank and the point
Outline(points, style) ==
    JoinWith([i \in 1..Len(points) |-> Marker(style, i) \o <<" ">> \o points[i]],
             <<"\n">>)

PointAlphabet == {"a", "-", " ", "(nbsp)"}

\* single-line point texts that are not empty
PointTexts == SeqsUpTo(PointAlphabet, MaxTextLen) \ {<<>>}

\* the lists of one point and of two points
PointLists ==
    {<<p>> : p \in PointTexts} \cup {<<p, q>> : p \in PointTexts, q \in PointTexts}

\* SkeletonOfThought.parse_skeleton is applied to the outlines of a list of
\* points, one outline per marker style
ParseOutlines ==
    /\ f_name = "none"
    /\ \E points \in PointLists :
          /\ f_args' = <<points>>
          /\ f_result' = [s \in 1..Len(MarkerStyles) |->
                            parse_skeleton(Outline(points, MarkerStyles[s]))]
    /\ f_name' = "parse_skeleton"
    /\ UNCHANGED <<tvars, ovars, svars>>

NextParse == ParseOutlines \/ FunctionReturns

SpecParse == InitGuard /\ [][NextParse]_vars

-----------------------------------------------------------------------------
(* C1: protect, then restore.                                              *)

HasChar(s, c) == \E i \in 1..Len(s) : s[i] = c

AllDigits(s) == s # <<>> /\ \A i \in 1..Len(s) : s[i] \in DigitChars

\* the keys of g are non-empty and occur in text
KeysOccur(text, g) ==
    \A i \in 1..Len(g) : g[i][1] # <<>> /\ Contains(text, g[i][1])

\* a key that cannot match inside a marker or across the edge of one
KeyClearOfMarkers(k) ==
    /\ ~HasChar(k, "_")
    /\ k \notin { <<"P">>, <<"H">>, <<"P", "H">> }
    /\ ~AllDigits(k)

RoundTripDone == t_op = "roundtrip" /\ t_pc = "done"

\* C1 as stated: for every text and every glossary whose keys are non-empty
\* and occur in the text, _protect_terms then _restore_terms returns the text
\* (read here for the glossaries that hold a term).
C1_RoundTripIsIdentity ==
    (RoundTripDone /\ t_map # <<>> /\ KeysOccur(t_text, t_map)) => t_out = t_text

\* C1 amended: the round trip returns exactly the input text when, besides,
\* every key maps to itself, the text has no leading or trailing whitespace
\* and no underscore, and no key has an underscore, is "P", "H" or "PH", or
\* is made of digits only.
C1_RoundTripOfKeptTerms ==
    ( /\ RoundTripDone
      /\ KeysOccur(t_text, t_map)
      /\ \A i \in 1..Len(t_map) :
            t_map[i][2] = t_map[i][1] /\ KeyClearOfMarkers(t_map[i][1])
      /\ Strip(t_text) = t_text
      /\ ~HasChar(t_text, "_") )
    => t_out = t_text

\* two terms kept as they are were protected and restored
C1_Witness ==
    /\ RoundTripDone
    /\ KeysOccur(t_text, t_map)
    /\ \A i \in 1..Len(t_map) :
          t_map[i][2] = t_map[i][1] /\ KeyClearOfMarkers(t_map[i][1])
    /\ Strip(t_text) = t_text
    /\ ~HasChar(t_text, "_")
    /\ Len(t_placeholders) = 2
    /\ t_protected # t_text
    /\ t_out = t_text

-----------------------------------------------------------------------------
(* C2: what the two public methods of Translator return.                   *)

\* s without its whitespace
WithoutWs(s) == SelectSeq(s, LAMBDA c : ~IsWs(c))

\* s holds a marker, or a marker with whitespace put inside it
MarkerShaped(s) == HasMarker(s) \/ HasMarker(WithoutWs(s))

\* C2: whatever engine.translate returned for the chunks, the string that
\* english_to_chinese or chinese_to_english returns holds no placeholder
\* marker and no marker-shaped leftover.
C2_NoMarkerInResult ==
    (t_op \in TrOps /\ t_pc = "done") => ~MarkerShaped(t_out)

-----------------------------------------------------------------------------
(* C3, C4, C5: SkeletonOfThought.complete.                                 *)

SotReturned == s_pc = "returned"

\* the Stage-1 text of the current call
SkeletonText == ContentOrEmpty(s_raw_skeleton.content)

\* the Stage-2 calls that raised
FailedCalls ==
    {k \in 1..Len(s_calls) : s_calls[k].stage = 2 /\ s_calls[k].status = "err"}

\* C3: in the result of SoT complete() the lists skeleton, expanded_points
\* and raw_expansions have the same length: the number of parsed points when
\* there is one at least, and 1 when parsing the Stage-1 text gives none.
C3_ListLengths ==
    SotReturned =>
        LET n == Len(parse_skeleton(SkeletonText))
        IN  /\ Len(DictGet(s_result, "skeleton")) = (IF n >= 1 THEN n ELSE 1)
            /\ Len(DictGet(s_result, "expanded_points")) = Len(DictGet(s_result, "skeleton"))
            /\ Len(DictGet(s_result, "raw_expansions")) = Len(DictGet(s_result, "skeleton"))

\* a call returned whose Stage-1 text has no point: the lists have one entry
C3_Witness ==
    /\ SotReturned
    /\ parse_skeleton(SkeletonText) = <<>>
    /\ Len(DictGet(s_result, "skeleton")) = 1
    /\ Len(DictGet(s_result, "raw_expansions")) = 1
    /\ \E k \in 1..Len(s_calls) : s_calls[k].stage = 2

\* C4: in parallel mode with more than one point, whatever the order in
\* which the worker tasks issued and ended their calls, expanded_points[i]
\* and raw_expansions[i] are the text and the raw response of the call made
\* for skeleton[i], and response is these texts joined by a blank line in
\* the order of the skeleton.
C4_ResultsFollowSkeleton ==
    (SotReturned /\ s_self.parallel /\ Len(s_points) > 1) =>
        LET skeleton == DictGet(s_result, "skeleton")
            expanded == DictGet(s_result, "expanded_points")
            raws     == DictGet(s_result, "raw_expansions")
        IN  /\ skeleton = s_points
            /\ Len(expanded) = Len(skeleton)
            /\ Len(raws) = Len(skeleton)
            /\ \A i \in 1..Len(skeleton) :
                  LET k == raws[i].id
                  IN  /\ s_calls[k].stage = 2
                      /\ s_calls[k].index = i
                      /\ s_calls[k].point = skeleton[i]
                      /\ s_calls[k].messages[2].content = expand_user(skeleton[i])
                      /\ s_calls[k].status = "ok"
                      /\ (raws[i].content = None) = (s_calls[k].content = None)
                      /\ ContentOrEmpty(raws[i].content) = ContentOrEmpty(s_calls[k].content)
                      /\ expanded[i] = ContentOrEmpty(s_calls[k].content)
            /\ DictGet(s_result, "response") = JoinWith(expanded, <<"\n", "\n">>)

\* a parallel call returned whose three calls were neither issued nor ended
\* in the order of the points, and whose texts differ
C4_Witness ==
    /\ SotReturned
    /\ s_self.parallel
    /\ Len(s_points) = 3
    /\ s_done = <<3, 1, 2>>
    /\ s_tasks[1].call > s_tasks[2].call
    /\ DictGet(s_result, "expanded_points") = << <<"x">>, <<"y">>, <<>> >>
    /\ DictGet(s_result, "response") = <<"x", "\n", "\n", "y", "\n", "\n">>

\* C5: once a Stage-2 call has failed, complete() returns no result: in
\* sequential mode it has raised at once, in parallel mode it raises when
\* the tasks are over; the error is that of a failed call, the only one when
\* one call failed; and no point gets a second call.
C5_FailurePropagates ==
    /\ FailedCalls # {} =>
          /\ s_pc # "returned"
          /\ s_result = None
          /\ \/ /\ s_pc = "raised"
                /\ \E k \in FailedCalls : s_err = CallError(k)
             \/ /\ s_pc = "expanding_parallel"
                /\ Unfinished(s_tasks) # {}
    /\ \A k1, k2 \in 1..Len(s_calls) :
          (s_calls[k1].stage = 2 /\ s_calls[k2].stage = 2
             /\ s_calls[k1].index = s_calls[k2].index) => k1 = k2

\* a parallel call raised the error of its one failed call, the second of
\* three, when the two others had returned texts
C5_Witness ==
    /\ s_pc = "raised"
    /\ s_self.parallel
    /\ Len(s_tasks) = 3
    /\ FailedCalls = {s_tasks[2].call}
    /\ s_err = CallError(s_tasks[2].call)
    /\ ContentOrEmpty(s_calls[s_tasks[1].call].content) = <<"x">>
    /\ ContentOrEmpty(s_calls[s_tasks[3].call].content) = <<"y">>
    /\ s_done = <<2, 3, 1>>

-----------------------------------------------------------------------------
(* C6, C7, C9, C10: ChinesePromptOptimizer.complete.                       *)

OptReturned == o_pc = "returned"

SotKeys == {"skeleton", "expanded_points", "raw_skeleton", "raw_expansions"}

\* the optimizer was built with use_sot set to b
BuiltWithUseSot(b) ==
    /\ DictHas(o_ctor.litellm_kwargs, "use_sot")
    /\ DictGet(o_ctor.litellm_kwargs, "use_sot") = b

\* C6: built with use_sot=True, complete() returns the keys skeleton,
\* expanded_points, raw_skeleton and raw_expansions and no raw_response;
\* built with use_sot=False, it issues one completion call and returns
\* raw_response and none of those keys.
C6_DispatchByUseSot ==
    /\ (OptReturned /\ BuiltWithUseSot(TRUE)) =>
          /\ \A k \in SotKeys : DictHas(o_result, k)
          /\ ~DictHas(o_result, "raw_response")
    /\ (OptReturned /\ BuiltWithUseSot(FALSE)) =>
          /\ Len(o_calls) = 1
          /\ DictHas(o_result, "raw_response")
          /\ \A k \in SotKeys : ~DictHas(o_result, k)

InRange(temperature) ==
    temperature # NaN /\ MIN_TEMPERATURE <= temperature /\ temperature <= MAX_TEMPERATURE

\* C7: every completion call complete() issues carries a temperature within
\* [0.1, 0.4], the one given to the constructor when that one is within.
C7_CallTemperature ==
    \A k \in 1..Len(o_calls) :
        /\ DictHas(o_calls[k].kwargs, "temperature")
        /\ InRange(DictGet(o_calls[k].kwargs, "temperature"))
        /\ InRange(o_ctor.temperature) =>
              DictGet(o_calls[k].kwargs, "temperature") = o_ctor.temperature

\* a call went out at 0.4 from an optimizer built with 0.45
C7_Witness ==
    /\ o_pc = "completion"
    /\ o_ctor.temperature = 45
    /\ Len(o_calls) = 1
    /\ DictGet(o_calls[1].kwargs, "temperature") = MAX_TEMPERATURE

\* the text is empty or made of whitespace only
OnlyWhitespace(s) == \A i \in 1..Len(s) : s[i] \in WsChars

\* C9: complete() with a blank system_prompt or user_message, and a
\* Translator method with a blank text, raise a ValueError when this
\* invocation has issued no engine.translate call and no completion call.
C9_BlankInputRejected ==
    /\ (o_pc \notin {"absent", "idle"}
          /\ (OnlyWhitespace(o_args.system_prompt) \/ OnlyWhitespace(o_args.user_message))) =>
          /\ o_pc = "raised"
          /\ o_err = (IF OnlyWhitespace(o_args.system_prompt)
                      THEN SystemPromptError ELSE UserMessageError)
          /\ o_calls = <<>>
          /\ t_pc = "idle"
          /\ t_sent = <<>>
    /\ (t_op \in TrOps /\ OnlyWhitespace(t_text)) =>
          /\ t_pc = "raised"
          /\ t_err = TranslatorValueError
          /\ t_sent = <<>>
          /\ o_pc \in {"absent", "idle"} => o_calls = <<>>

\* complete() raised on a user_message of whitespace, after a system_prompt
\* that is not blank
C9_Witness ==
    /\ o_pc = "raised"
    /\ ~OnlyWhitespace(o_args.system_prompt)
    /\ o_args.user_message = <<"\n">>
    /\ o_err = UserMessageError
    /\ o_calls = <<>>

\* C10: an error of the system-prompt translation reaches the caller with
\* no completion call issued; an error of the completion call reaches the
\* caller after one attempt; an error of the response translation reaches
\* the caller; and then complete() returns no result dict.
C10_ErrorsPropagate ==
    /\ (o_pc \notin {"absent", "idle"} /\ t_pc = "raised" /\ t_op = "e2c") =>
          /\ o_pc = "raised"
          /\ o_err = t_err
          /\ o_calls = <<>>
    /\ (o_calls # <<>> /\ o_calls[1].status = "err") =>
          /\ o_pc = "raised"
          /\ o_err = CompletionError
    /\ (o_pc \notin {"absent", "idle"} /\ t_pc = "raised" /\ t_op = "c2e") =>
          /\ o_pc = "raised"
          /\ o_err = t_err
    /\ Len(o_calls) <= 1
    /\ o_pc = "raised" => o_result = None
    /\ OptReturned =>
          /\ t_pc # "raised"
          /\ Len(o_calls) = 1
          /\ o_calls[1].status = "ok"

\* the translation of the response raised after the one completion call
C10_Witness ==
    /\ o_pc = "raised"
    /\ o_err = TranslationError
    /\ t_op = "c2e"
    /\ t_sent # <<>>
    /\ Len(o_calls) = 1
    /\ o_result = None

-----------------------------------------------------------------------------
(* C8: HallucinationGuard.enforce_temperature on its own.                  *)

\* C8: enforce_temperature(t) is within [0.1, 0.4]: t itself when t is
\* within, 0.1 when t is below 0.1 and 0.4 when t is above 0.4.
C8_Clamp ==
    f_name = "enforce_temperature" =>
        LET t == f_args[1]
        IN  /\ InRange(f_result)
            /\ InRange(t) => f_result = t
            /\ (t # NaN /\ t < MIN_TEMPERATURE) => f_result = MIN_TEMPERATURE
            /\ (t # NaN /\ t > MAX_TEMPERATURE) => f_result = MAX_TEMPERATURE

\* a temperature above the range came back as 0.4
C8_Witness ==
    /\ f_name = "enforce_temperature"
    /\ f_args[1] = MAX_TEMPERATURE + 1
    /\ f_result = MAX_TEMPERATURE

-----------------------------------------------------------------------------
(* C11 to C13: the result dict and the messages of complete().             *)

\* C11: the dict complete() returns has the key savings exactly when the
\* call set return_savings, and the key grounding exactly when the optimizer
\* was built with hallucination_guard enabled.
C11_OptionalKeys ==
    OptReturned =>
        /\ DictHas(o_result, "savings") <=> o_args.return_savings
        /\ DictHas(o_result, "grounding") <=> o_ctor.hallucination_guard

\* a call with return_savings on an optimizer built without the guard
\* returned savings and no grounding
C11_Witness ==
    /\ OptReturned
    /\ o_args.return_savings
    /\ ~o_ctor.hallucination_guard
    /\ DictHas(o_result, "savings")
    /\ ~DictHas(o_result, "grounding")

\* the few-shot examples the optimizer was built with
ConfiguredExamples ==
    IF o_ctor.few_shot_examples = None THEN <<>> ELSE o_ctor.few_shot_examples

\* the example has a user turn and an assistant turn
BothTurns(ex) == "user" \in DOMAIN ex /\ "assistant" \in DOMAIN ex

\* C12: the messages of a completion call are one system message first,
\* the translated prompt as the guard augmented it, then the messages of the
\* few-shot examples in the configured order, then one user message last;
\* k examples that each have both turns make 2k + 2 messages.
C12_MessageSequence ==
    \A c \in 1..Len(o_calls) :
        LET m == o_calls[c].messages
            k == Len(ConfiguredExamples)
        IN  /\ Len(m) >= 2
            /\ m[1] = [role |-> "system",
                       content |-> build_guarded_prompt(o_chinese, TRUE,
                                                        o_ctor.use_cot,
                                                        o_ctor.use_self_reflect)]
            /\ \A i \in 2..Len(m) : m[i].role # "system"
            /\ m[Len(m)].role = "user"
            /\ SubSeq(m, 2, Len(m) - 1) = build_few_shot_messages(ConfiguredExamples)
            /\ (\A e \in 1..k : BothTurns(ConfiguredExamples[e])) =>
                  /\ Len(m) = 2 * k + 2
                  /\ \A e \in 1..k :
                        /\ m[2 * e] = [role |-> "user",
                                       content |-> ConfiguredExamples[e].user]
                        /\ m[2 * e + 1] = [role |-> "assistant",
                                           content |-> ConfiguredExamples[e].assistant]

\* a call went out with six messages from an optimizer built with two
\* examples
C12_Witness ==
    /\ o_pc = "completion"
    /\ Len(ConfiguredExamples) = 2
    /\ \A e \in 1..2 : BothTurns(ConfiguredExamples[e])
    /\ Len(o_calls) = 1
    /\ Len(o_calls[1].messages) = 6
    /\ o_calls[1].messages[4].content = <<"b">>

\* the call gave a list of context snippets that is not empty
SnippetsGiven == o_args.context_snippets # None /\ o_args.context_snippets # <<>>

\* the content of the last message of the call
FinalUserMessage(call) == call.messages[Len(call.messages)].content

\* C13: with a non-empty list of context snippets the last message of the
\* completion call is the context block, a blank line and the user message of
\* the call, in that order; without snippets, or with an empty list, it is
\* the user message of the call unchanged.
C13_ContextBeforeUserMessage ==
    \A c \in 1..Len(o_calls) :
        LET last == FinalUserMessage(o_calls[c])
            block == build_rag_context_block(o_args.context_snippets)
        IN  IF SnippetsGiven
            THEN /\ block # <<>>
                 /\ last = block \o <<"\n", "\n">> \o o_args.user_message
            ELSE last = o_args.user_message

\* a call with one snippet went out with the block ahead of the user message
C13_Witness ==
    /\ o_pc = "completion"
    /\ SnippetsGiven
    /\ Len(o_calls) = 1
    /\ Len(FinalUserMessage(o_calls[1])) > Len(o_args.user_message) + 2
    /\ FinalUserMessage(o_calls[1])[1] = CONTEXT_START[1]

-----------------------------------------------------------------------------
(* C18 to C20: the two public methods of Translator.                       *)

\* a sentence end followed by whitespace lies at position j of s
BoundaryAt(s, j) == j < Len(s) /\ s[j] \in SentenceEnd /\ s[j + 1] \in WsChars

\* u can be a sentence unit: it is not empty, starts with no whitespace and
\* has no boundary inside; a unit that is not the last one ends a sentence
IsUnit(u, isLast) ==
    /\ u # <<>>
    /\ u[1] \notin WsChars
    /\ \A j \in 1..Len(u) : ~BoundaryAt(u, j)
    /\ isLast \/ u[Len(u)] \in SentenceEnd

RECURSIVE LaidOut(_, _, _)
\* the units are what s holds from position i on, in order, with a run of
\* whitespace between one and the next and nothing after the last
LaidOut(units, s, i) ==
    IF units = <<>> THEN FALSE
    ELSE LET u    == units[1]
             next == i + Len(u)
         IN  /\ next <= Len(s) + 1
             /\ SubSeq(s, i, next - 1) = u
             /\ IF Len(units) = 1 THEN next = Len(s) + 1
                ELSE /\ next <= Len(s)
                     /\ s[next] \in WsChars
                     /\ LaidOut(Tail(units), s, next + WsRun(s, next))

\* the units are the sentence units of the text
UnitsOf(units, text) ==
    /\ \A n \in 1..Len(units) : IsUnit(units[n], n = Len(units))
    /\ LaidOut(units, Strip(text), 1)

\* C18: both methods hand the sentence units of the protected text to the
\* engine, one call per unit and in order, one call in all for a text with
\* no boundary, and restore the terms in the translated units joined by a
\* single space.
C18_OneCallPerSentence ==
    /\ (t_op \in TrOps /\ t_pc = "translating") =>
          UnitsOf(t_sent \o t_chunks, t_protected)
    /\ (t_op \in TrOps /\ t_pc = "done") =>
          /\ UnitsOf(t_sent, t_protected)
          /\ Len(t_parts) = Len(t_sent)
          /\ (\A j \in 1..Len(Strip(t_protected)) :
                 ~BoundaryAt(Strip(t_protected), j)) => Len(t_sent) = 1
          /\ t_out = RestoreTerms(JoinWith(t_parts, <<" ">>), t_placeholders)

\* a text of two sentences and a protected term went to the engine in two
\* calls
C18_Witness ==
    /\ t_op = "e2c"
    /\ t_pc = "done"
    /\ t_text = <<"b", "!", " ", " ", "a", "?">>
    /\ t_placeholders # <<>>
    /\ Len(t_sent) = 2
    /\ t_sent[1] = <<"b", "!">>
    /\ Len(t_out) >= 4

\* a method of Translator is past its validation
TrUnderWay == t_op \in TrOps /\ (t_pc \in {"translating", "done"} \/ t_sent # <<>>)

\* the keys of the instance glossary and of the per-call glossary
AppliedKeys ==
    DictKeys(t_glossary) \cup (IF t_extra = None THEN {} ELSE DictKeys(t_extra))

\* the value of a key: the per-call one when the call gives the key
AppliedValue(k) ==
    IF t_extra # None /\ DictHas(t_extra, k)
    THEN DictGet(t_extra, k) ELSE DictGet(t_glossary, k)

\* the translated units, joined, hold the i-th marker as it was sent
MarkerCameBack(i) == Contains(JoinWith(t_parts, <<" ">>), t_placeholders[i][1])

\* C19: in both directions the glossary applied is the instance glossary
\* merged with the per-call one, the per-call value standing for a key that
\* is in both: the terms protected are taken from it, and a marker that
\* comes back is restored to the value it gives (english_to_chinese) or to
\* the key it gives that value to (chinese_to_english).
C19_PerCallGlossaryWins ==
    TrUnderWay =>
        /\ t_op = "e2c" =>
              /\ DictKeys(t_map) = AppliedKeys
              /\ \A k \in AppliedKeys : DictGet(t_map, k) = AppliedValue(k)
              /\ \A i \in 1..Len(t_placeholders) :
                    \E k \in AppliedKeys :
                        /\ Contains(t_text, k)
                        /\ t_placeholders[i][2] = AppliedValue(k)
        /\ t_op = "c2e" =>
              /\ \A i \in 1..Len(t_map) :
                    /\ t_map[i][2] \in AppliedKeys
                    /\ t_map[i][1] = AppliedValue(t_map[i][2])
              /\ \A i \in 1..Len(t_placeholders) :
                    /\ t_placeholders[i][2] \in AppliedKeys
                    /\ Contains(t_text, AppliedValue(t_placeholders[i][2]))
        /\ t_pc = "done" =>
              \A i \in 1..Len(t_placeholders) :
                  MarkerCameBack(i) => Contains(t_out, t_placeholders[i][2])

\* english_to_chinese of a text holding a, with a -> x in the instance
\* glossary and a -> y in the call's, gave y for the term
C19_Witness ==
    /\ t_op = "e2c"
    /\ t_pc = "done"
    /\ t_glossary = << <<Txt_a, Txt_x>> >>
    /\ t_extra = << <<Txt_a, <<"y">>>> >>
    /\ t_text = <<"b", " ", "a">>
    /\ t_placeholders # <<>>
    /\ MarkerCameBack(1)
    /\ Contains(t_out, <<"y">>)
    /\ ~Contains(t_out, Txt_x)

\* C20: in chinese_to_english, for every entry key -> value of the merged
\* glossary whose value is not empty and occurs in the input text, the value
\* is replaced by a marker before the engine is called, and the output holds
\* the key in its place whenever the marker comes back from the engine as it
\* was sent.
C20_ReverseProtection ==
    (TrUnderWay /\ t_op = "c2e") =>
        \A k \in AppliedKeys :
            (AppliedValue(k) # <<>> /\ Contains(t_text, AppliedValue(k))) =>
                /\ \A n \in 1..Len(t_sent) : ~Contains(t_sent[n], AppliedValue(k))
                /\ \E i \in 1..Len(t_placeholders) :
                      /\ t_placeholders[i][2] = k
                      /\ (t_pc = "done" /\ MarkerCameBack(i)) => Contains(t_out, k)

-----------------------------------------------------------------------------
(* C14: SkeletonOfThought.parse_skeleton on outlines.                      *)

\* the points, each one stripped
Trimmed(points) == [i \in 1..Len(points) |-> Strip(points[i])]

\* every marker style gave the stripped points, in the order of the list
AllStylesGive(points) ==
    \A s \in 1..Len(MarkerStyles) : f_result[s] = Trimmed(points)

\* the point has a character that is not whitespace, and only blanks and
\* tabs before the first such character
StartsPlainly(p) ==
    SkipHoriz(p, 1) <= Len(p) /\ p[SkipHoriz(p, 1)] \notin WsChars

\* C14 as stated: for every list of non-empty single-line point texts, the
\* outlines written with "1.", "1)", "-", "*" and the bullet all parse to the
\* same list, the stripped point texts in the order of the list.
C14_FormatAgnostic ==
    f_name = "parse_skeleton" => AllStylesGive(f_args[1])

\* C14, amended: the same for every list of single-line point texts that each
\* have a character that is not whitespace, with nothing but blanks and tabs
\* before it.
C14_FormatAgnosticOnPlainPoints ==
    (f_name = "parse_skeleton"
       /\ \A i \in 1..Len(f_args[1]) : StartsPlainly(f_args[1][i])) =>
        AllStylesGive(f_args[1])

\* two points, one with blanks around it and one that is a dash followed by
\* a no-break space, came back stripped from the bullet outline
C14_Witness ==
    /\ f_name = "parse_skeleton"
    /\ f_args[1] = << <<" ", "a", " ">>, <<"-", "(nbsp)">> >>
    /\ f_result[5] = << <<"a">>, <<"-">> >>
    /\ f_result[1] = f_result[5]

-----------------------------------------------------------------------------
(* C15: the points SoT complete() expands.                                 *)

\* the Stage-1 call of the current SoT call has returned
SkeletonArrived == s_calls # <<>> /\ s_calls[1].status = "ok"

\* the n-th smallest member of a set of indices
Nth(idx, n) == CHOOSE i \in idx : Cardinality({j \in idx : j <= i}) = n

\* the lines of the text that hold a marker followed by content
MarkedLines(text) ==
    {i \in 1..Len(RegexLines(text)) : PointMatch(RegexLines(text)[i]) # <<>>}

\* the lines of the text that hold a character that is not whitespace
NonBlankLines(text) ==
    {i \in 1..Len(RegexLines(text)) : ~OnlyWhitespace(RegexLines(text)[i])}

\* C15: the points come from three tiers, tried in order.  When a line of the
\* Stage-1 text starts with a marker followed by content, they are the
\* contents of the lines that do, in order, and nothing else; otherwise they
\* are the non-blank lines, stripped, in order; and when that gives nothing,
\* complete() goes on with the stripped text as its one point: it issues the
\* Stage-2 call for it and raises nothing unless that call fails.
C15_ParsingTiers ==
    SkeletonArrived =>
        LET text   == SkeletonText
            lines  == RegexLines(text)
            marked == MarkedLines(text)
            filled == NonBlankLines(text)
        IN  IF marked # {}
            THEN /\ Len(s_points) = Cardinality(marked)
                 /\ \A n \in 1..Len(s_points) :
                       s_points[n] = Strip(PointMatch(lines[Nth(marked, n)])[1])
            ELSE IF filled # {}
            THEN /\ Len(s_points) = Cardinality(filled)
                 /\ \A n \in 1..Len(s_points) :
                       s_points[n] = Strip(lines[Nth(filled, n)])
            ELSE /\ s_points = <<Strip(text)>>
                 /\ Len(s_calls) = 2
                 /\ s_calls[2].stage = 2
                 /\ s_calls[2].point = Strip(text)
                 /\ s_pc = "raised" => s_calls[2].status = "err"

\* complete() returned after a Stage-1 text of whitespace: one point, empty
C15_Witness ==
    /\ SotReturned
    /\ SkeletonText = <<" ", "\n">>
    /\ s_points = << <<>> >>
    /\ Len(s_calls) = 2
    /\ s_calls[2].status = "ok"

-----------------------------------------------------------------------------
(* C16, C17: HallucinationGuard.check_source_grounding on its own.         *)

GroundingApplied == f_name = "check_source_grounding"

\* C16 as stated: with an empty source or an empty response the result is
\* grounded, with an overlap_ratio of 0.0 for an empty source and of 1.0 for
\* an empty response.
C16_EmptyInputRatios ==
    (GroundingApplied /\ (f_args[1] = <<>> \/ f_args[2] = <<>>)) =>
        /\ f_result.grounded
        /\ f_args[1] = <<>> => f_result.overlap_ratio = 0
        /\ (f_args[1] # <<>> /\ f_args[2] = <<>>) => f_result.overlap_ratio = 1000

\* C16, amended: with an empty source or an empty response the result is
\* grounded, with an overlap_ratio of 0.0 in both cases.
C16_EmptyInputIsGrounded ==
    (GroundingApplied /\ (f_args[1] = <<>> \/ f_args[2] = <<>>)) =>
        /\ f_result.grounded
        /\ f_result.overlap_ratio = 0

\* an empty response to a source with a key term, under the threshold 1.0,
\* came back grounded at 0.0
C16_Witness ==
    /\ GroundingApplied
    /\ f_args[1] = <<"w", "a", "x", "y">>
    /\ f_args[2] = <<>>
    /\ f_args[3] = 1000
    /\ f_result.grounded
    /\ f_result.overlap_ratio = 0

\* the key terms of the source that occur in the lower-cased response
FoundTerms(source, response) ==
    {w \in KeyTerms(source) : Contains(Lower(response), w)}

\* C17's case: source and response are not empty and the source has a key
\* term
TermsCompared ==
    /\ GroundingApplied
    /\ f_args[1] # <<>>
    /\ f_args[2] # <<>>
    /\ KeyTerms(f_args[1]) # {}

\* grounded exactly when found / total reaches the threshold, and a warning
\* exactly when not grounded
GroundedByThreshold ==
    LET found == Cardinality(FoundTerms(f_args[1], f_args[2]))
        total == Cardinality(KeyTerms(f_args[1]))
    IN  /\ f_result.grounded <=> (found * 1000 >= f_args[3] * total)
        /\ f_args[3] = 0 => f_result.grounded
        /\ (f_result.warning # <<>>) <=> ~f_result.grounded

\* C17 as stated: in that case overlap_ratio is the number of key terms found
\* in the response over the number of key terms, within [0, 1]; grounded
\* holds exactly when that overlap reaches min_overlap_ratio, always for 0.0;
\* the warning is not empty exactly when grounded is false.
C17_ExactOverlap ==
    TermsCompared =>
        LET found == Cardinality(FoundTerms(f_args[1], f_args[2]))
            total == Cardinality(KeyTerms(f_args[1]))
        IN  /\ f_result.overlap_ratio * total = found * 1000
            /\ f_result.overlap_ratio \in 0..1000
            /\ GroundedByThreshold

\* C17, amended: overlap_ratio is that fraction rounded to three decimals.
C17_RoundedOverlap ==
    TermsCompared =>
        LET found == Cardinality(FoundTerms(f_args[1], f_args[2]))
            total == Cardinality(KeyTerms(f_args[1]))
            off   == f_result.overlap_ratio * total - found * 1000
        IN  /\ 2 * off <= total
            /\ -2 * off <= total
            /\ f_result.overlap_ratio \in 0..1000
            /\ GroundedByThreshold

\* two of three key terms found: 0.667 reported, grounded under 0.5
C17_Witness ==
    /\ TermsCompared
    /\ Cardinality(KeyTerms(f_args[1])) = 3
    /\ Cardinality(FoundTerms(f_args[1], f_args[2])) = 2
    /\ f_args[3] = 500
    /\ f_result.overlap_ratio = 667
    /\ f_result.grounded
    /\ f_result.warning = <<>>

-----------------------------------------------------------------------------
(* C21: english_to_chinese and the terms of the glossary.                  *)

\* every marker of the placeholder map came back from the engine
AllMarkersCameBack == \A i \in 1..Len(t_placeholders) : MarkerCameBack(i)

\* C21: in english_to_chinese, for every key of the merged glossary that
\* occurs in the input text, no chunk handed to the engine holds the key, and
\* the output holds the value of the key when the engine returned the
\* markers as they were sent.
C21_ForwardProtection ==
    (TrUnderWay /\ t_op = "e2c") =>
        \A k \in AppliedKeys :
            (k # <<>> /\ Contains(t_text, k)) =>
                /\ \A n \in 1..Len(t_sent) : ~Contains(t_sent[n], k)
                /\ (t_pc = "done" /\ AllMarkersCameBack) =>
                      Contains(t_out, AppliedValue(k))

-----------------------------------------------------------------------------
(* C26: the markers _protect_terms leaves in the text.                     *)

\* C26: for every glossary of non-empty keys, every marker recorded in the
\* placeholder map of _protect_terms occurs intact in the protected text, and
\* the protected text of an input without underscores has no underscore
\* outside an intact marker: none is broken, none lies inside another.
C26_MarkersStayIntact ==
    (RoundTripDone /\ \A i \in 1..Len(t_map) : t_map[i][1] # <<>>) =>
        /\ \A i \in 1..Len(t_placeholders) :
              Contains(t_protected, t_placeholders[i][1])
        /\ ~HasChar(t_text, "_") => ~HasChar(PhSub(t_protected), "_")

-----------------------------------------------------------------------------
(* C22, C23: the prompt and the context block HallucinationGuard builds.   *)

\* a line break and the block when the flag is set, nothing otherwise
BlockIf(flag, block) == IF flag THEN <<"\n">> \o block ELSE <<>>

NumberedLines(snippets, block) ==
    LET n     == Len(snippets)
        lines == RegexLines(block)
    IN  /\ Len(lines) = n + 2
        /\ lines[1] = CONTEXT_START
        /\ lines[n + 2] = CONTEXT_END
        /\ \A i \in 1..n :
              lines[i + 1] = Decimal(i) \o <<".", " ">> \o Strip(snippets[i])

\* C23 as stated: build_rag_context_block returns the empty string for an
\* empty list; for N >= 1 snippets the block begins with the start marker,
\* ends with the end marker and holds exactly N lines between them, the i-th
\* being the number i followed by the i-th snippet stripped.
C23_OneLinePerSnippet ==
    f_name = "build_rag_context_block" =>
        IF f_args[1] = <<>> THEN f_result = <<>>
        ELSE NumberedLines(f_args[1], f_result)

\* C23, amended: the same for the lists of snippets that, once stripped, have
\* no line break inside.
C23_OneLinePerSingleLineSnippet ==
    (f_name = "build_rag_context_block"
       /\ \A i \in 1..Len(f_args[1]) : ~HasChar(Strip(f_args[1][i]), "\n")) =>
        IF f_args[1] = <<>> THEN f_result = <<>>
        ELSE NumberedLines(f_args[1], f_result)

\* ten snippets: the last line before the end marker is numbered 10
C23_Witness ==
    /\ f_name = "build_rag_context_block"
    /\ Len(f_args[1]) = 10
    /\ RegexLines(f_result)[11] = <<"1", "0", ".", " ", "a">>
    /\ RegexLines(f_result)[12] = CONTEXT_END

-----------------------------------------------------------------------------
(* C24: token_savings_report on two token counts.                          *)

SavingsApplied == f_name = "token_savings_report"

\* C24 as stated: tokens_saved is english_tokens - chinese_tokens and
\* saving_pct is tokens_saved / english_tokens * 100 (10 and 4 tokens give 6
\* and 60.0); with english_tokens = 0, saving_pct is 0.0.
C24_ExactPercentage ==
    SavingsApplied =>
        LET en == f_args[1]
            zh == f_args[2]
        IN  /\ f_result.tokens_saved = en - zh
            /\ en > 0 => f_result.saving_pct * en = (en - zh) * 10000
            /\ en = 0 => f_result.saving_pct = 0

\* C24, amended: saving_pct is that percentage rounded to two decimals.
C24_RoundedPercentage ==
    SavingsApplied =>
        LET en  == f_args[1]
            zh  == f_args[2]
            off == f_result.saving_pct * en - (en - zh) * 10000
        IN  /\ f_result.tokens_saved = en - zh
            /\ en > 0 => (2 * off <= en /\ -2 * off <= en)
            /\ en = 0 => f_result.saving_pct = 0
            /\ (en = 10 /\ zh = 4) =>
                  (f_result.tokens_saved = 6 /\ f_result.saving_pct = 6000)

\* 3 and 1 tokens: 2 saved, 66.67 percent
C24_Witness ==
    /\ SavingsApplied
    /\ f_args = <<3, 1>>
    /\ f_result.tokens_saved = 2
    /\ f_result.saving_pct = 6667

-----------------------------------------------------------------------------
(* C25: calls of the Translator methods one after the other.               *)

\* the glossary the Translator of the optimizer was built with
ConstructedGlossary ==
    IF o_ctor.glossary = None THEN <<>> ELSE o_ctor.glossary

\* the glossary terms of a call, from the constructed glossary and the
\* arguments of the call alone
CallTerms ==
    LET merged == MergeGlossary(ConstructedGlossary, t_extra)
    IN  IF t_op = "e2c" THEN merged ELSE InvertGlossary(merged)

\* C25: whatever calls came before on the same Translator, the instance
\* glossary is the one it was built with, and a call of english_to_chinese
\* or chinese_to_english hands the engine, and returns, what its text, its
\* per-call glossary, the constructed glossary and the engine's answers
\* determine.
C25_CallsAreRepeatable ==
    /\ o_pc # "absent" => t_glossary = ConstructedGlossary
    /\ (o_pc # "absent" /\ t_op \in TrOps /\ t_pc \in {"translating", "done"}) =>
          LET pr == ProtectTerms(t_text, CallTerms)
          IN  /\ t_sent \o t_chunks = SplitSentences(pr[1])
              /\ t_pc = "done" =>
                    t_out = RestoreTerms(JoinWith(t_parts, <<" ">>), pr[2])

\* complete() got its response from chinese_to_english, its second call on a
\* Translator built with a glossary, both with a per-call glossary
C25_Witness ==
    /\ OptReturned
    /\ o_ctor.glossary # None
    /\ o_ctor.translate_response
    /\ o_args.extra_glossary # None
    /\ o_chinese # None
    /\ t_op = "c2e"
    /\ t_pc = "done"
    /\ t_map # <<>>
    /\ t_glossary = o_ctor.glossary

-----------------------------------------------------------------------------
(* C27: the completion calls of one SkeletonOfThought.complete.            *)

\* the calls issued for the point at position i
CallsFor(i) == {k \in 1..Len(s_calls) : s_calls[k].stage = 2 /\ s_calls[k].index = i}

\* call k asks for the expansion of the one point p under the caller's
\* system prompt
CarriesPoint(k, p) ==
    /\ s_calls[k].point = p
    /\ Len(s_calls[k].messages) = 2
    /\ s_calls[k].messages[1] = [role |-> "system", content |-> s_args.system_prompt]
    /\ s_calls[k].messages[2] = [role |-> "user", content |-> expand_user(p)]

\* C27: a complete() that has returned issued one Stage-1 call and then one
\* Stage-2 call for each skeleton point, 1 + N calls in all, each Stage-2
\* call with the caller's system prompt unchanged and one point; and at no
\* moment is there a Stage-2 call while the Stage-1 call has not returned.
C27_OneCallPerPoint ==
    /\ (s_pc # "absent" /\ Len(s_calls) > 1) =>
          /\ s_calls[1].stage = 1
          /\ s_calls[1].status = "ok"
          /\ \A k \in 2..Len(s_calls) : s_calls[k].stage = 2
    /\ SotReturned =>
          /\ Len(s_calls) = 1 + Len(s_points)
          /\ s_calls[1].stage = 1
          /\ \A i \in 1..Len(s_points) :
                /\ Cardinality(CallsFor(i)) = 1
                /\ \A k \in CallsFor(i) : CarriesPoint(k, s_points[i])

\* a parallel complete() returned the expansion of three points whose calls
\* did not end in the order of the points
C27_Witness ==
    /\ SotReturned
    /\ s_self.parallel
    /\ Len(s_points) = 3
    /\ s_done # <<1, 2, 3>>
    /\ Len(s_calls) = 4

-----------------------------------------------------------------------------
(* C28: the end of a parallel complete() and its expansion tasks.          *)

\* complete() has ended, with its dict or with an exception
SotEnded == s_pc \in {"returned", "raised"}

\* C28: when a complete() of a SkeletonOfThought built with parallel=True
\* has returned or raised, every expansion task it submitted has run to its
\* end and no completion call is still under way.
C28_JoinBarrier ==
    (SotEnded /\ s_self.parallel) =>
        /\ \A i \in 1..Len(s_tasks) : s_tasks[i].st \in {"ok", "err"}
        /\ \A k \in 1..Len(s_calls) : s_calls[k].status \in {"ok", "err"}
        /\ Len(s_done) = Len(s_tasks)

\* a parallel complete() raised for a task that failed first while two
\* others were still to end
C28_Witness ==
    /\ s_pc = "raised"
    /\ s_self.parallel
    /\ Len(s_tasks) = 3
    /\ Len(s_done) = 3
    /\ s_tasks[s_done[1]].st = "err"
    /\ s_tasks[s_done[3]].st = "ok"

-----------------------------------------------------------------------------
(* C29: complete() when every external call succeeds.                      *)

\* the errors of the external calls: engine.translate and
\* litellm.completion
ExternalErrors == {TranslationError, CompletionError}

\* C29: a complete() with a non-blank system prompt and a non-blank user
\* message raises only the error of an external call that failed; when all
\* of them succeed it returns a dict with a response, whatever the content
\* of the completion.
C29_ReturnsWhenCallsSucceed ==
    /\ (/\ o_pc = "raised"
        /\ ~IsBlank(o_args.system_prompt)
        /\ ~IsBlank(o_args.user_message)) => o_err \in ExternalErrors
    /\ OptReturned => DictHas(o_result, "response")

-----------------------------------------------------------------------------
(* C30: the grounding result in the dict of complete().                    *)

\* the response complete() arrived at: the translation of the completion's
\* content, or the content itself
ResponseArrivedAt ==
    IF o_self.translate_response
    THEN t_out
    ELSE IF o_raw.content = None THEN <<>> ELSE o_raw.content

====
